---- MODULE Spec2Model ----
(***************************************************************************)
(* better-feeds: frequency classifier (src/utils/classifier.ts), the       *)
(* background message handlers (src/background/index.ts), the key-value    *)
(* store (src/utils/db.ts) and the content script's per-tweet ledger and   *)
(* hide decision (src/content/twitter.ts).                                 *)
(*                                                                         *)
(* A text is a sequence of one-character strings.  A confidence is a       *)
(* reduced fraction <<num, den>>: the scores are small integers, so the    *)
(* IEEE quotients the code compares are ordered exactly as the fractions.  *)
(***************************************************************************)
EXTENDS Integers, Sequences, FiniteSets, TLC

VARIABLES
    trained,          \* TweetClassifier.trained
    likedWords,       \* TweetClassifier.likedWords   (term -> count)
    dislikedWords,    \* TweetClassifier.dislikedWords (term -> count)
    lastCall,         \* the last call made on the classifier, with its pre-state
    tweets,           \* db.tweets: id -> TweetData
    dbSettings,       \* db.settings, the record stored under 'default'
    installed,        \* chrome.runtime.onInstalled has fired
    tweetOps,         \* background handlers waiting on db.tweets, oldest first
    settingsOps,      \* background handlers waiting on db.settings, oldest first
    responses,        \* responses on their way to a content-script callback
    sent,             \* request -> the responses passed to its sendResponse so far
    processedTweets,  \* content script: id -> interaction state
    settings,         \* content script: its copy of the settings
    clicks,           \* the number of rating-button clicks so far
    lastDecision      \* the last hide decision, with the values it was taken on

classifierVars == <<trained, likedWords, dislikedWords>>

storeVars == <<tweets, dbSettings>>

backgroundVars == <<installed, tweetOps, settingsOps, responses, sent>>

contentVars == <<processedTweets, settings, clicks>>

systemVars == <<tweets, dbSettings, installed, tweetOps, settingsOps, responses, sent,
                processedTweets, settings, clicks>>

vars == <<trained, likedWords, dislikedWords, lastCall, tweets, dbSettings, installed,
          tweetOps, settingsOps, responses, sent, processedTweets, settings, clicks,
          lastDecision>>

Null == "null"

\* an optional field of a JavaScript object is a field the record may lack
Has(obj, field) == field \in DOMAIN obj

(***************************************************************************)
(* Characters and strings                                                  *)
(***************************************************************************)
LowerAlpha == <<"a","b","c","d","e","f","g","h","i","j","k","l","m",
                "n","o","p","q","r","s","t","u","v","w","x","y","z">>

UpperAlpha == <<"A","B","C","D","E","F","G","H","I","J","K","L","M",
                "N","O","P","Q","R","S","T","U","V","W","X","Y","Z">>

Digits == {"0","1","2","3","4","5","6","7","8","9"}

Whitespace == {" ", "\t", "\n"}

Range(s) == {s[i] : i \in DOMAIN s}

UpperChars == Range(UpperAlpha)

LowerOf == [c \in UpperChars |->
              LowerAlpha[CHOOSE i \in DOMAIN UpperAlpha : UpperAlpha[i] = c]]

\* String.prototype.toLowerCase, one character
toLowerChar(c) == IF c \in UpperChars THEN LowerOf[c] ELSE c

toLowerCase(text) == [i \in DOMAIN text |-> toLowerChar(text[i])]

\* the regular expression class \w
WordChars == Range(LowerAlpha) \cup UpperChars \cup Digits \cup {"_"}

IsWordChar(c) == c \in WordChars

\* the regular expression class \s
IsSpace(c) == c \in Whitespace

\* .replace(/[^\w\s]/g, '')
removePunctuation(text) == SelectSeq(text, LAMBDA c : IsWordChar(c) \/ IsSpace(c))

\* String.prototype.split(/\s+/): the pieces between maximal whitespace runs,
\* empty pieces at either end included.  cur is the piece being read,
\* inRun says that the previous character was whitespace.
RECURSIVE splitFrom(_, _, _, _)
splitFrom(text, i, cur, inRun) ==
    IF i > Len(text) THEN <<cur>>
    ELSE IF IsSpace(text[i])
      THEN IF inRun THEN splitFrom(text, i + 1, cur, TRUE)
                    ELSE <<cur>> \o splitFrom(text, i + 1, <<>>, TRUE)
      ELSE splitFrom(text, i + 1, Append(cur, text[i]), FALSE)

splitWhitespace(text) == splitFrom(text, 1, <<>>, FALSE)

stopwords == { <<"a">>, <<"a","n">>, <<"t","h","e">>, <<"a","n","d">>, <<"o","r">>,
               <<"b","u","t">>, <<"i","s">>, <<"a","r","e">>, <<"w","a","s">>,
               <<"w","e","r","e">>, <<"i","n">>, <<"t","o">>, <<"o","f">>,
               <<"f","o","r">> }

processText_KeepsShort(text) ==
    IF text = <<>> THEN <<>>
    ELSE LET tokens == SelectSeq(splitWhitespace(removePunctuation(toLowerCase(text))),
                                 LAMBDA tok : tok # <<>>)
         IN  SelectSeq(tokens, LAMBDA tok : tok \notin stopwords)

\* TweetClassifier.processText
processText(text) ==
    IF text = <<>> THEN <<>>
    ELSE LET tokens == SelectSeq(splitWhitespace(removePunctuation(toLowerCase(text))),
                                 LAMBDA tok : tok # <<>>)
         IN  SelectSeq(tokens, LAMBDA tok : tok \notin stopwords /\ Len(tok) > 1)

(***************************************************************************)
(* Map<string, number>                                                     *)
(***************************************************************************)
EmptyMap == [w \in {} |-> 0]

\* map.get(word) || 0
mapGet(m, w) == IF w \in DOMAIN m THEN m[w] ELSE 0

\* map.set(word, v)
mapSet(m, w, v) == [x \in (DOMAIN m) \cup {w} |-> IF x = w THEN v ELSE m[x]]

(***************************************************************************)
(* Fractions                                                               *)
(***************************************************************************)
RECURSIVE gcd(_, _)
gcd(a, b) == IF b = 0 THEN a ELSE gcd(b, a % b)

\* the quotient n / d of two scores, d > 0
Quot(n, d) == <<n \div gcd(n, d), d \div gcd(n, d)>>

Zero == <<0, 1>>
One == <<1, 1>>

\* x > y on fractions
FracGT(x, y) == x[1] * y[2] > y[1] * x[2]

(***************************************************************************)
(* TweetClassifier                                                         *)
(***************************************************************************)
minTrainingExamples == 10

\* countWords recording only that a word occurs: wordMap.set(word, 1)
RECURSIVE countWords_Presence(_, _, _)
countWords_Presence(words, i, wordMap) ==
    IF i > Len(words) THEN wordMap
    ELSE countWords_Presence(words, i + 1, mapSet(wordMap, words[i], 1))

\* the inner loop of train: wordMap.set(word, (wordMap.get(word) || 0) + 1)
RECURSIVE countWords(_, _, _)
countWords(words, i, wordMap) ==
    IF i > Len(words) THEN wordMap
    ELSE countWords(words, i + 1, mapSet(wordMap, words[i], mapGet(wordMap, words[i]) + 1))

\* the outer loop of train over ratedTweets, from index i on
RECURSIVE countTweets(_, _, _, _)
countTweets(ratedTweets, i, liked, disliked) ==
    IF i > Len(ratedTweets) THEN [likedWords |-> liked, dislikedWords |-> disliked]
    ELSE LET tweet == ratedTweets[i]
             words == processText(tweet.content)
         IN  IF tweet.rating = 1
               THEN countTweets(ratedTweets, i + 1, countWords(words, 1, liked), disliked)
               ELSE countTweets(ratedTweets, i + 1, liked, countWords(words, 1, disliked))

\* tweets.filter(tweet => tweet.rating !== undefined && tweet.content)
ratedWithContent(tweetList) ==
    SelectSeq(tweetList, LAMBDA tweet : Has(tweet, "rating") /\ tweet.content # <<>>)

\* train clearing the word counts before it checks the number of examples
train_ClearFirst(tweetList, model) ==
    LET ratedTweets == ratedWithContent(tweetList)
    IN  IF Len(ratedTweets) < minTrainingExamples
          THEN [ok |-> FALSE, trained |-> model.trained,
                likedWords |-> EmptyMap, dislikedWords |-> EmptyMap]
          ELSE LET counted == countTweets(ratedTweets, 1, EmptyMap, EmptyMap)
               IN  [ok |-> TRUE, trained |-> TRUE,
                    likedWords |-> counted.likedWords,
                    dislikedWords |-> counted.dislikedWords]

\* train resetting the trained flag when there are too few examples
train_RevertUntrained(tweetList, model) ==
    LET ratedTweets == ratedWithContent(tweetList)
    IN  IF Len(ratedTweets) < minTrainingExamples
          THEN [ok |-> FALSE, trained |-> FALSE,
                likedWords |-> model.likedWords, dislikedWords |-> model.dislikedWords]
          ELSE LET counted == countTweets(ratedTweets, 1, EmptyMap, EmptyMap)
               IN  [ok |-> TRUE, trained |-> TRUE,
                    likedWords |-> counted.likedWords,
                    dislikedWords |-> counted.dislikedWords]

\* train comparing with <= : exactly minTrainingExamples examples are too few
train_OffByOne(tweetList, model) ==
    LET ratedTweets == ratedWithContent(tweetList)
    IN  IF Len(ratedTweets) <= minTrainingExamples
          THEN [ok |-> FALSE, trained |-> model.trained,
                likedWords |-> model.likedWords, dislikedWords |-> model.dislikedWords]
          ELSE LET counted == countTweets(ratedTweets, 1, EmptyMap, EmptyMap)
               IN  [ok |-> TRUE, trained |-> TRUE,
                    likedWords |-> counted.likedWords,
                    dislikedWords |-> counted.dislikedWords]

\* train without the two clear() calls: counts are added to the old ones
train_NoClear(tweetList, model) ==
    LET ratedTweets == ratedWithContent(tweetList)
    IN  IF Len(ratedTweets) < minTrainingExamples
          THEN [ok |-> FALSE, trained |-> model.trained,
                likedWords |-> model.likedWords, dislikedWords |-> model.dislikedWords]
          ELSE LET counted == countTweets(ratedTweets, 1, model.likedWords,
                                          model.dislikedWords)
               IN  [ok |-> TRUE, trained |-> TRUE,
                    likedWords |-> counted.likedWords,
                    dislikedWords |-> counted.dislikedWords]

\* TweetClassifier.train: the classifier after the call and the value returned
train(tweetList, model) ==
    LET ratedTweets == ratedWithContent(tweetList)
    IN  IF Len(ratedTweets) < minTrainingExamples
          THEN [ok |-> FALSE, trained |-> model.trained,
                likedWords |-> model.likedWords, dislikedWords |-> model.dislikedWords]
          ELSE LET counted == countTweets(ratedTweets, 1, EmptyMap, EmptyMap)
               IN  [ok |-> TRUE, trained |-> TRUE,
                    likedWords |-> counted.likedWords,
                    dislikedWords |-> counted.dislikedWords]

\* the scoring loop with add-one smoothing: every word scores at least 1
RECURSIVE score_Smoothed(_, _, _)
score_Smoothed(words, i, wordMap) ==
    IF i > Len(words) THEN 0
    ELSE mapGet(wordMap, words[i]) + 1 + score_Smoothed(words, i + 1, wordMap)

\* the scoring loop of predict
RECURSIVE score(_, _, _)
score(words, i, wordMap) ==
    IF i > Len(words) THEN 0
    ELSE mapGet(wordMap, words[i]) + score(words, i + 1, wordMap)

NoPrediction == [prediction |-> Null, confidence |-> Zero]

\* predict whose untrained guard returns the result of the final else branch
predict_UntrainedDislike(tweetContent, model) ==
    IF ~model.trained THEN [prediction |-> "dislike", confidence |-> Zero]
    ELSE LET words == processText(tweetContent)
             likeScore == score(words, 1, model.likedWords)
             dislikeScore == score(words, 1, model.dislikedWords)
             totalScore == likeScore + dislikeScore
         IN  IF Len(words) = 0 THEN NoPrediction
             ELSE IF totalScore = 0 THEN NoPrediction
             ELSE IF FracGT(Quot(likeScore, totalScore), Quot(dislikeScore, totalScore))
               THEN [prediction |-> "like", confidence |-> Quot(likeScore, totalScore)]
               ELSE [prediction |-> "dislike", confidence |-> Quot(dislikeScore, totalScore)]

\* predict comparing with >= : an exact tie is a like
predict_TieLike(tweetContent, model) ==
    IF ~model.trained THEN NoPrediction
    ELSE LET words == processText(tweetContent)
             likeScore == score(words, 1, model.likedWords)
             dislikeScore == score(words, 1, model.dislikedWords)
             totalScore == likeScore + dislikeScore
         IN  IF Len(words) = 0 THEN NoPrediction
             ELSE IF totalScore = 0 THEN NoPrediction
             ELSE IF likeScore >= dislikeScore
               THEN [prediction |-> "like", confidence |-> Quot(likeScore, totalScore)]
               ELSE [prediction |-> "dislike", confidence |-> Quot(dislikeScore, totalScore)]

\* predict falling through to the final else branch when no word is known
predict_NoOverlapDislike(tweetContent, model) ==
    IF ~model.trained THEN NoPrediction
    ELSE LET words == processText(tweetContent)
             likeScore == score(words, 1, model.likedWords)
             dislikeScore == score(words, 1, model.dislikedWords)
             totalScore == likeScore + dislikeScore
         IN  IF Len(words) = 0 THEN NoPrediction
             ELSE IF totalScore = 0 THEN [prediction |-> "dislike", confidence |-> Zero]
             ELSE IF FracGT(Quot(likeScore, totalScore), Quot(dislikeScore, totalScore))
               THEN [prediction |-> "like", confidence |-> Quot(likeScore, totalScore)]
               ELSE [prediction |-> "dislike", confidence |-> Quot(dislikeScore, totalScore)]

\* predict returning the other side's confidence with the like label
predict_LosingShare(tweetContent, model) ==
    IF ~model.trained THEN NoPrediction
    ELSE LET words == processText(tweetContent)
             likeScore == score(words, 1, model.likedWords)
             dislikeScore == score(words, 1, model.dislikedWords)
             totalScore == likeScore + dislikeScore
         IN  IF Len(words) = 0 THEN NoPrediction
             ELSE IF totalScore = 0 THEN NoPrediction
             ELSE IF FracGT(Quot(likeScore, totalScore), Quot(dislikeScore, totalScore))
               THEN [prediction |-> "like", confidence |-> Quot(dislikeScore, totalScore)]
               ELSE [prediction |-> "dislike", confidence |-> Quot(dislikeScore, totalScore)]

\* TweetClassifier.predict
predict(tweetContent, model) ==
    IF ~model.trained THEN NoPrediction
    ELSE LET words == processText(tweetContent)
             likeScore == score(words, 1, model.likedWords)
             dislikeScore == score(words, 1, model.dislikedWords)
             totalScore == likeScore + dislikeScore
         IN  IF Len(words) = 0 THEN NoPrediction
             ELSE IF totalScore = 0 THEN NoPrediction
             ELSE IF FracGT(Quot(likeScore, totalScore), Quot(dislikeScore, totalScore))
               THEN [prediction |-> "like", confidence |-> Quot(likeScore, totalScore)]
               ELSE [prediction |-> "dislike", confidence |-> Quot(dislikeScore, totalScore)]

\* TweetClassifier.isReady
isReady(model) == model.trained

positiveWords == { <<"g","o","o","d">>, <<"g","r","e","a","t">>, <<"l","o","v","e">>,
                   <<"e","x","c","e","l","l","e","n","t">>, <<"h","a","p","p","y">>,
                   <<"a","m","a","z","i","n","g">> }

negativeWords == { <<"b","a","d">>, <<"t","e","r","r","i","b","l","e">>, <<"h","a","t","e">>,
                   <<"a","w","f","u","l">>, <<"s","a","d">>, <<"h","o","r","r","i","b","l","e">> }

\* generateSimpleSentiment matching the tokens of processText
generateSimpleSentiment_Tokenized(text) ==
    LET words == processText(text)
        positiveCount == Cardinality({i \in DOMAIN words : words[i] \in positiveWords})
        negativeCount == Cardinality({i \in DOMAIN words : words[i] \in negativeWords})
    IN  IF positiveCount > negativeCount THEN "Positive"
        ELSE IF negativeCount > positiveCount THEN "Negative"
        ELSE "Neutral"

\* TweetClassifier.generateSimpleSentiment
generateSimpleSentiment(text) ==
    LET words == splitWhitespace(toLowerCase(text))
        positiveCount == Cardinality({i \in DOMAIN words : words[i] \in positiveWords})
        negativeCount == Cardinality({i \in DOMAIN words : words[i] \in negativeWords})
    IN  IF positiveCount > negativeCount THEN "Positive"
        ELSE IF negativeCount > positiveCount THEN "Negative"
        ELSE "Neutral"

\* the live classifier object
classifier == [trained |-> trained, likedWords |-> likedWords, dislikedWords |-> dislikedWords]

\* new TweetClassifier()
newClassifier ==
    /\ trained = FALSE
    /\ likedWords = EmptyMap
    /\ dislikedWords = EmptyMap

(***************************************************************************)
(* Texts and tweets                                                        *)
(***************************************************************************)
TxtGood == <<"G","o","o","d">>
TxtBad == <<"b","a","d","!">>
TxtGoodGood == <<"g","o","o","d"," "," ","G","O","O","D","\n">>
TxtGoodBad == <<"g","o","o","d"," ","B","a","d">>
TxtStop == <<"A"," ","t","o",".">>
TxtSadSky == <<"S","a","d"," ","s","k","y">>
TxtEmpty == <<>>

Texts == {TxtGood, TxtBad, TxtGoodGood, TxtGoodBad, TxtStop, TxtSadSky, TxtEmpty}

LikeGood == [id |-> 101, content |-> TxtGood, rating |-> 1]
DislikeBad == [id |-> 102, content |-> TxtBad, rating |-> -1]
LikeStop == [id |-> 103, content |-> TxtStop, rating |-> 1]
DislikeGoodGood == [id |-> 104, content |-> TxtGoodGood, rating |-> -1]
LikeEmpty == [id |-> 105, content |-> TxtEmpty, rating |-> 1]
UnratedBad == [id |-> 106, content |-> TxtBad]

TweetKinds == {LikeGood, DislikeBad, DislikeGoodGood, LikeEmpty, UnratedBad}

\* n rated tweets with content: a like, a dislike, a like of stopwords only, ...
Filler(n) == [i \in 1..n |-> IF i % 3 = 1 THEN LikeGood
                             ELSE IF i % 3 = 2 THEN DislikeBad ELSE LikeStop]

(***************************************************************************)
(* BetterFeedsDatabase (db.ts)                                             *)
(***************************************************************************)
\* undefined, as an object without fields
NoRecord == [f \in {} |-> 0]

\* { ...a, ...b }
Merge(a, b) == [f \in (DOMAIN a) \cup (DOMAIN b) |-> IF f \in DOMAIN b THEN b[f] ELSE a[f]]

\* the settings record put by the 'ready' hook and returned as fallback
defaultSettings == [filterEnabled |-> FALSE, filterThreshold |-> 50]

\* saveTweet with tweets.add semantics: a record already under the key stays
saveTweet_KeepFirst(table, tweet) ==
    [id \in (DOMAIN table) \cup {tweet.id} |-> IF id \in DOMAIN table THEN table[id] ELSE tweet]

\* BetterFeedsDatabase.saveTweet: tweets.put(tweet)
saveTweet(table, tweet) ==
    [id \in (DOMAIN table) \cup {tweet.id} |-> IF id = tweet.id THEN tweet ELSE table[id]]

\* BetterFeedsDatabase.getTweet: tweets.get(id)
getTweet(table, id) == IF id \in DOMAIN table THEN table[id] ELSE NoRecord

\* Table.toArray: the records of the given keys in primary-key order
RECURSIVE toArray(_, _)
toArray(table, ids) ==
    IF ids = {} THEN <<>>
    ELSE LET first == CHOOSE k \in ids : \A j \in ids : k <= j
         IN  <<table[first]>> \o toArray(table, ids \ {first})

\* BetterFeedsDatabase.getRatedTweets
getRatedTweets(table) == toArray(table, {id \in DOMAIN table : Has(table[id], "rating")})

\* getSettings without the fallback for a missing record
getSettings_NoFallback(stored) == stored

\* BetterFeedsDatabase.getSettings
getSettings(stored) == IF stored = NoRecord THEN defaultSettings ELSE stored

\* BetterFeedsDatabase.updateSettings: settings.update('default', newSettings)
updateSettings(stored, newSettings) ==
    IF stored = NoRecord THEN stored ELSE Merge(stored, newSettings)

(***************************************************************************)
(* Background script (background/index.ts)                                 *)
(***************************************************************************)
\* case 'getPrediction' answering from the classifier before it looks at the rating
getPredictionResponse_ModelFirst(existingTweet, content, model) ==
    IF isReady(model)
      THEN LET result == predict(content, model)
           IN  [prediction |-> result.prediction, confidence |-> result.confidence,
                isUserRated |-> FALSE]
    ELSE IF Has(existingTweet, "rating")
      THEN [prediction |-> IF existingTweet.rating = 1 THEN "like" ELSE "dislike",
            confidence |-> One, isUserRated |-> TRUE]
    ELSE [prediction |-> Null, confidence |-> Zero,
          sentiment |-> generateSimpleSentiment(content)]

\* case 'getPrediction' attaching the sentiment to the classifier's result too
getPredictionResponse_SentimentAlways(existingTweet, content, model) ==
    IF Has(existingTweet, "rating")
      THEN [prediction |-> IF existingTweet.rating = 1 THEN "like" ELSE "dislike",
            confidence |-> One, isUserRated |-> TRUE]
    ELSE IF ~isReady(model)
      THEN [prediction |-> Null, confidence |-> Zero,
            sentiment |-> generateSimpleSentiment(content)]
    ELSE LET result == predict(content, model)
         IN  [prediction |-> result.prediction, confidence |-> result.confidence,
              sentiment |-> generateSimpleSentiment(content), isUserRated |-> FALSE]

\* case 'getPrediction', from the point where db.getTweet has resolved
getPredictionResponse(existingTweet, content, model) ==
    IF Has(existingTweet, "rating")
      THEN [prediction |-> IF existingTweet.rating = 1 THEN "like" ELSE "dislike",
            confidence |-> One, isUserRated |-> TRUE]
    ELSE IF ~isReady(model)
      THEN [prediction |-> Null, confidence |-> Zero,
            sentiment |-> generateSimpleSentiment(content)]
    ELSE LET result == predict(content, model)
         IN  [prediction |-> result.prediction, confidence |-> result.confidence,
              isUserRated |-> FALSE]

\* (error as Error).message of the TypeError of undefined.toLowerCase()
typeError == "Cannot read properties of undefined (reading 'toLowerCase')"

\* case 'getPrediction' for a message that may lack its content field: predict
\* gets an empty list from processText (if (!text) return []), and
\* generateSimpleSentiment calls text.toLowerCase(), whose TypeError the
\* catch block turns into the response
getPredictionCase(existingTweet, message, model) ==
    IF Has(message, "content")
      THEN getPredictionResponse(existingTweet, message.content, model)
    ELSE IF Has(existingTweet, "rating") \/ isReady(model)
      THEN getPredictionResponse(existingTweet, TxtEmpty, model)
    ELSE [prediction |-> Null, confidence |-> Zero, error |-> typeError]

\* classifier.train leaving the word counts cleared: the state between the
\* clear() calls and the recount
trainIfAny_ClearOnly(ratedTweets) ==
    IF Len(ratedTweets) > 0
      THEN LET r == train(ratedTweets, classifier)
           IN  /\ trained' = r.trained
               /\ likedWords' = IF r.ok THEN EmptyMap ELSE r.likedWords
               /\ dislikedWords' = IF r.ok THEN EmptyMap ELSE r.dislikedWords
      ELSE UNCHANGED classifierVars

\* if (ratedTweets.length > 0) classifier.train(ratedTweets)
trainIfAny(ratedTweets) ==
    IF Len(ratedTweets) > 0
      THEN LET r == train(ratedTweets, classifier)
           IN  /\ trained' = r.trained
               /\ likedWords' = r.likedWords
               /\ dislikedWords' = r.dislikedWords
      ELSE UNCHANGED classifierVars

\* chrome.runtime.sendMessage: the request has a response channel of its own
openChannel(channels, req) ==
    [r \in (DOMAIN channels) \cup {req} |-> IF r = req THEN <<>> ELSE channels[r]]

\* handleMessage().then(sendResponse)
sendResponse(channels, req, response) == [channels EXCEPT ![req] = Append(@, response)]

HeadIs(queue, action, await) ==
    /\ queue # <<>>
    /\ Head(queue).action = action
    /\ Head(queue).await = await

\* chrome.runtime.onInstalled listener: db.getSettings resolved (the settings
\* are only logged), db.getRatedTweets called
onInstalled ==
    /\ ~installed
    /\ installed' = TRUE
    /\ tweetOps' = Append(tweetOps, [action |-> "onInstalled", await |-> "getRatedTweets"])
    /\ UNCHANGED <<classifierVars, lastCall, storeVars, settingsOps, responses, sent,
                   contentVars, lastDecision>>

\* onInstalled: db.getRatedTweets resolved, classifier trained on the result
onInstalled_train ==
    /\ HeadIs(tweetOps, "onInstalled", "getRatedTweets")
    /\ tweetOps' = Tail(tweetOps)
    /\ trainIfAny(getRatedTweets(tweets))
    /\ UNCHANGED <<lastCall, storeVars, installed, settingsOps, responses, sent, contentVars,
                   lastDecision>>

\* case 'saveTweetRating' going on to db.getRatedTweets without the put done
saveTweetRating_saveTweet_NoPut ==
    /\ HeadIs(tweetOps, "saveTweetRating", "saveTweet")
    /\ tweetOps' = Append(Tail(tweetOps),
                          [action |-> "saveTweetRating", await |-> "getRatedTweets",
                           req |-> Head(tweetOps).req, data |-> Head(tweetOps).data])
    /\ UNCHANGED <<classifierVars, lastCall, storeVars, installed, settingsOps, responses,
                   sent, contentVars, lastDecision>>

\* case 'saveTweetRating': db.saveTweet resolved, db.getRatedTweets called
saveTweetRating_saveTweet ==
    /\ HeadIs(tweetOps, "saveTweetRating", "saveTweet")
    /\ tweets' = saveTweet(tweets, Head(tweetOps).data)
    /\ tweetOps' = Append(Tail(tweetOps),
                          [action |-> "saveTweetRating", await |-> "getRatedTweets",
                           req |-> Head(tweetOps).req, data |-> Head(tweetOps).data])
    /\ UNCHANGED <<classifierVars, lastCall, dbSettings, installed, settingsOps, responses,
                   sent, contentVars, lastDecision>>

\* case 'saveTweetRating' training on the rated tweets as they were before
\* its own put
saveTweetRating_train_Stale ==
    /\ HeadIs(tweetOps, "saveTweetRating", "getRatedTweets")
    /\ tweetOps' = Tail(tweetOps)
    /\ trainIfAny(SelectSeq(getRatedTweets(tweets),
                            LAMBDA t : t.id # Head(tweetOps).data.id))
    /\ sent' = sendResponse(sent, Head(tweetOps).req, [success |-> TRUE])
    /\ UNCHANGED <<lastCall, storeVars, installed, settingsOps, responses, contentVars,
                   lastDecision>>

\* case 'saveTweetRating': db.getRatedTweets resolved, classifier trained, the
\* response { success: true } goes to a sender that registered no callback
saveTweetRating_train ==
    /\ HeadIs(tweetOps, "saveTweetRating", "getRatedTweets")
    /\ tweetOps' = Tail(tweetOps)
    /\ trainIfAny(getRatedTweets(tweets))
    /\ sent' = sendResponse(sent, Head(tweetOps).req, [success |-> TRUE])
    /\ UNCHANGED <<lastCall, storeVars, installed, settingsOps, responses, contentVars,
                   lastDecision>>

\* case 'getPrediction': db.getTweet resolved, the response is sent
getPrediction_respond ==
    /\ HeadIs(tweetOps, "getPrediction", "getTweet")
    /\ LET message == Head(tweetOps)
           existingTweet == getTweet(tweets, message.tweetId)
       IN  /\ responses' = responses \cup
              {[to |-> "getPrediction", tweetId |-> message.tweetId,
                response |-> getPredictionResponse(existingTweet, message.content, classifier),
                existingTweet |-> existingTweet, content |-> message.content,
                model |-> classifier]}
           /\ sent' = sendResponse(sent, message.req,
                                   getPredictionResponse(existingTweet, message.content,
                                                         classifier))
    /\ tweetOps' = Tail(tweetOps)
    /\ UNCHANGED <<classifierVars, lastCall, storeVars, installed, settingsOps, contentVars,
                   lastDecision>>

\* case 'getSettings': db.getSettings resolved, the response is sent
getSettings_respond ==
    /\ HeadIs(settingsOps, "getSettings", "getSettings")
    /\ responses' = responses \cup {[to |-> "getSettings", response |-> getSettings(dbSettings)]}
    /\ sent' = sendResponse(sent, Head(settingsOps).req, getSettings(dbSettings))
    /\ settingsOps' = Tail(settingsOps)
    /\ UNCHANGED <<classifierVars, lastCall, storeVars, installed, tweetOps, contentVars,
                   lastDecision>>

\* case 'updateSettings': db.updateSettings resolved
updateSettings_update ==
    /\ HeadIs(settingsOps, "updateSettings", "updateSettings")
    /\ dbSettings' = updateSettings(dbSettings, Head(settingsOps).settings)
    /\ sent' = sendResponse(sent, Head(settingsOps).req, [success |-> TRUE])
    /\ settingsOps' = Tail(settingsOps)
    /\ UNCHANGED <<classifierVars, lastCall, tweets, installed, tweetOps, responses,
                   contentVars, lastDecision>>

\* (error as Error).message of a rejected store operation
storeError == "store error"

\* onInstalled: db.getRatedTweets rejected, the error is logged
onInstalled_catch ==
    /\ HeadIs(tweetOps, "onInstalled", "getRatedTweets")
    /\ tweetOps' = Tail(tweetOps)
    /\ UNCHANGED <<classifierVars, lastCall, storeVars, installed, settingsOps, responses, sent,
                   contentVars, lastDecision>>

\* the catch block of case 'saveTweetRating' throwing again instead of returning
saveTweetRating_catch_Rethrow ==
    /\ tweetOps # <<>>
    /\ Head(tweetOps).action = "saveTweetRating"
    /\ tweetOps' = Tail(tweetOps)
    /\ UNCHANGED <<classifierVars, lastCall, storeVars, installed, settingsOps, responses, sent,
                   contentVars, lastDecision>>

\* the catch block of case 'saveTweetRating' reached with the classifier trained
saveTweetRating_catch_Trains ==
    /\ tweetOps # <<>>
    /\ Head(tweetOps).action = "saveTweetRating"
    /\ tweetOps' = Tail(tweetOps)
    /\ trainIfAny(getRatedTweets(tweets))
    /\ sent' = sendResponse(sent, Head(tweetOps).req,
                            [success |-> FALSE, error |-> storeError])
    /\ UNCHANGED <<lastCall, storeVars, installed, settingsOps, responses, contentVars,
                   lastDecision>>

\* case 'saveTweetRating': db.saveTweet or db.getRatedTweets rejected
saveTweetRating_catch ==
    /\ tweetOps # <<>>
    /\ Head(tweetOps).action = "saveTweetRating"
    /\ tweetOps' = Tail(tweetOps)
    /\ sent' = sendResponse(sent, Head(tweetOps).req,
                            [success |-> FALSE, error |-> storeError])
    /\ UNCHANGED <<classifierVars, lastCall, storeVars, installed, settingsOps, responses,
                   contentVars, lastDecision>>

\* the response of case 'getPrediction' when db.getTweet rejected
getPredictionError == [prediction |-> Null, confidence |-> Zero, error |-> storeError]

\* case 'getPrediction': db.getTweet rejected
getPrediction_catch ==
    /\ HeadIs(tweetOps, "getPrediction", "getTweet")
    /\ LET message == Head(tweetOps)
       IN  /\ responses' = responses \cup
                 {[to |-> "getPrediction", tweetId |-> message.tweetId,
                   response |-> getPredictionError,
                   existingTweet |-> getTweet(tweets, message.tweetId),
                   content |-> message.content, model |-> classifier]}
           /\ sent' = sendResponse(sent, message.req, getPredictionError)
    /\ tweetOps' = Tail(tweetOps)
    /\ UNCHANGED <<classifierVars, lastCall, storeVars, installed, settingsOps, contentVars,
                   lastDecision>>

\* the response of case 'getSettings' when db.getSettings rejected
getSettingsError == [filterEnabled |-> FALSE, filterThreshold |-> 50, error |-> storeError]

\* case 'getSettings': db.getSettings rejected
getSettings_catch ==
    /\ HeadIs(settingsOps, "getSettings", "getSettings")
    /\ responses' = responses \cup {[to |-> "getSettings", response |-> getSettingsError]}
    /\ sent' = sendResponse(sent, Head(settingsOps).req, getSettingsError)
    /\ settingsOps' = Tail(settingsOps)
    /\ UNCHANGED <<classifierVars, lastCall, storeVars, installed, tweetOps, contentVars,
                   lastDecision>>

\* case 'updateSettings': db.updateSettings rejected
updateSettings_catch ==
    /\ HeadIs(settingsOps, "updateSettings", "updateSettings")
    /\ sent' = sendResponse(sent, Head(settingsOps).req,
                            [success |-> FALSE, error |-> storeError])
    /\ settingsOps' = Tail(settingsOps)
    /\ UNCHANGED <<classifierVars, lastCall, storeVars, installed, tweetOps, responses,
                   contentVars, lastDecision>>

\* the action values of MessageType (types.ts)
MessageType ==
    {"saveTweetRating", "getPrediction", "getSettings", "getRatedTweets", "updateSettings"}

\* switch (message.action) of handleMessage: the case that is taken
dispatch(action) ==
    IF action \in {"saveTweetRating", "getPrediction", "getSettings", "updateSettings",
                   "toggleDebug"}
      THEN action
      ELSE "default"

\* the response of the default case
unknownAction == [error |-> "Unknown action"]

\* handleMessage taking the default case: no store operation is awaited
default_respond ==
    /\ tweetOps # <<>>
    /\ dispatch(Head(tweetOps).action) = "default"
    /\ responses' = responses \cup {[to |-> Head(tweetOps).action, response |-> unknownAction]}
    /\ sent' = sendResponse(sent, Head(tweetOps).req, unknownAction)
    /\ tweetOps' = Tail(tweetOps)
    /\ UNCHANGED <<classifierVars, lastCall, storeVars, installed, settingsOps, contentVars,
                   lastDecision>>

(***************************************************************************)
(* Popup (popup.ts)                                                        *)
(***************************************************************************)
MaxTweets == 1
MaxPending == 1
MaxClicks == 1
MaxSettingsPending == 1
MaxSaves == 1

\* the updateSettings requests sent so far
savesSent == {req \in DOMAIN sent : req[1] = "updateSettings"}

SettingsChoices == { [filterEnabled |-> TRUE, filterThreshold |-> 50] }

\* saveSettings: the popup sends updateSettings to the background
saveSettings(newSettings) ==
    /\ Len(settingsOps) < MaxSettingsPending
    /\ Cardinality(savesSent) < MaxSaves
    /\ LET req == <<"updateSettings", Cardinality(savesSent) + 1>>
       IN  /\ settingsOps' = Append(settingsOps, [action |-> "updateSettings",
                                                  await |-> "updateSettings",
                                                  req |-> req, settings |-> newSettings])
           /\ sent' = openChannel(sent, req)
    /\ UNCHANGED <<classifierVars, lastCall, storeVars, installed, tweetOps, responses,
                   contentVars, lastDecision>>

\* loadStats: the popup sends getRatedTweets to the background, once
loadStats ==
    /\ <<"getRatedTweets", 1>> \notin DOMAIN sent
    /\ tweetOps' = Append(tweetOps, [action |-> "getRatedTweets", await |-> "none",
                                      req |-> <<"getRatedTweets", 1>>])
    /\ sent' = openChannel(sent, <<"getRatedTweets", 1>>)
    /\ UNCHANGED <<classifierVars, lastCall, storeVars, installed, settingsOps, responses,
                   contentVars, lastDecision>>

\* response callback of loadStats: a response that is not an array is dropped
\* and the counts of the popup stay as they are
loadStatsCallback(message) ==
    /\ message \in responses
    /\ message.to = "getRatedTweets"
    /\ responses' = responses \ {message}
    /\ UNCHANGED <<classifierVars, lastCall, storeVars, installed, tweetOps, settingsOps, sent,
                   contentVars, lastDecision>>

(***************************************************************************)
(* Content script (content/twitter.ts)                                     *)
(***************************************************************************)
\* the tweets of the page
TweetIds == 1..MaxTweets

\* the text of the tweet element with the given id
tweetText(id) == IF id % 3 = 1 THEN TxtBad ELSE IF id % 3 = 2 THEN TxtGoodBad ELSE TxtGood

\* the author of the tweet element with the given id; 'unknown' where the
\* element shows no user name
tweetAuthor(id) == IF id % 2 = 1 THEN "alice" ELSE "unknown"

\* Date.now(): the k-th click is at time 2k, what happens between two clicks
\* at the odd time between them; the records of earlier sessions carry time 0
clickTime(k) == 2 * k

dateNow == 2 * clicks + 1

\* TwitterDOMHandler.extractTweetData called at the time now
extractTweetData(tweetId, now) ==
    [id |-> tweetId, username |-> tweetAuthor(tweetId), content |-> tweetText(tweetId),
     timestamp |-> now]

\* truthiness of response.confidence
Truthy(confidence) == confidence # Zero

\* confidence > threshold / 100
AboveThreshold(confidence, threshold) == confidence[1] * 100 > threshold * confidence[2]

\* the hide condition without the settings.filterEnabled conjunct
shouldHide_IgnoresFilterEnabled(response, currentSettings) ==
    /\ Has(response, "prediction")
    /\ response.prediction = "dislike"
    /\ Has(response, "confidence")
    /\ Truthy(response.confidence)
    /\ AboveThreshold(response.confidence, currentSettings.filterThreshold)

\* the hide condition comparing with >= instead of >
shouldHide_NonStrict(response, currentSettings) ==
    /\ currentSettings.filterEnabled
    /\ Has(response, "prediction")
    /\ response.prediction = "dislike"
    /\ Has(response, "confidence")
    /\ Truthy(response.confidence)
    /\ response.confidence[1] * 100 >= currentSettings.filterThreshold * response.confidence[2]

\* the hide condition without the prediction === 'dislike' conjunct
shouldHide_AnyLabel(response, currentSettings) ==
    /\ currentSettings.filterEnabled
    /\ Has(response, "confidence")
    /\ Truthy(response.confidence)
    /\ AboveThreshold(response.confidence, currentSettings.filterThreshold)

\* the condition under which the response callback of getPrediction calls hideTweet
shouldHide(response, currentSettings) ==
    /\ currentSettings.filterEnabled
    /\ Has(response, "prediction")
    /\ response.prediction = "dislike"
    /\ Has(response, "confidence")
    /\ Truthy(response.confidence)
    /\ AboveThreshold(response.confidence, currentSettings.filterThreshold)

\* the tweet element as processTweet finds it: displayed, no placeholder
\* next to it
newElement == [display |-> "", placeholders |-> 0]

\* TwitterDOMHandler.hideTweet: the ledger after the call; attached says
\* whether the tweet element has a parentNode, before which the placeholder
\* is inserted (tweetElement.parentNode?.insertBefore)
hideTweet(ledger, tweetId, attached) ==
    IF tweetId \notin DOMAIN ledger \/ ledger[tweetId].isHidden THEN ledger
    ELSE [ledger EXCEPT ![tweetId].isHidden = TRUE,
                        ![tweetId].element =
                            [display |-> "none",
                             placeholders |-> @.placeholders + IF attached THEN 1 ELSE 0]]

\* TwitterDOMHandler.getPrediction: the message sent to the background
getPredictionMessage(tweetId, content) ==
    [action |-> "getPrediction", await |-> "getTweet", req |-> <<"getPrediction", tweetId>>,
     tweetId |-> tweetId, content |-> content]

newEntry(hasButtons) ==
    [element |-> newElement, hasButtons |-> hasButtons, isHidden |-> FALSE]

addEntry(ledger, tweetId, entry) ==
    [id \in (DOMAIN ledger) \cup {tweetId} |-> IF id = tweetId THEN entry ELSE ledger[id]]

\* TwitterDOMHandler.processTweet on a tweet seen for the first time; injected
\* says whether attemptDirectButtonInjection found a place for the buttons
processTweet_new(tweetId, injected) ==
    /\ tweetId \notin DOMAIN processedTweets
    /\ processedTweets' = addEntry(processedTweets, tweetId, newEntry(injected))
    /\ tweetOps' = Append(tweetOps, getPredictionMessage(tweetId, extractTweetData(tweetId, dateNow).content))
    /\ sent' = openChannel(sent, <<"getPrediction", tweetId>>)
    /\ UNCHANGED <<classifierVars, lastCall, storeVars, installed, settingsOps, responses,
                   settings, clicks, lastDecision>>

\* processTweet asking for the prediction again when it sees a known tweet
processTweet_known_Requests(tweetId) ==
    /\ tweetId \in DOMAIN processedTweets
    /\ ~processedTweets[tweetId].hasButtons
    /\ processedTweets' = [processedTweets EXCEPT ![tweetId].hasButtons = TRUE]
    /\ tweetOps' = Append(tweetOps, getPredictionMessage(tweetId, extractTweetData(tweetId, dateNow).content))
    /\ sent' = openChannel(sent, <<"getPrediction", tweetId>>)
    /\ UNCHANGED <<classifierVars, lastCall, storeVars, installed, settingsOps, responses,
                   settings, clicks, lastDecision>>

\* TwitterDOMHandler.processTweet on a known tweet that has no buttons yet and
\* for which attemptDirectButtonInjection now succeeds
processTweet_known(tweetId) ==
    /\ tweetId \in DOMAIN processedTweets
    /\ ~processedTweets[tweetId].hasButtons
    /\ processedTweets' = [processedTweets EXCEPT ![tweetId].hasButtons = TRUE]
    /\ UNCHANGED <<classifierVars, lastCall, storeVars, backgroundVars, settings, clicks,
                   lastDecision>>

\* handleActionBarMarker creating the ledger entry again for a known tweet
handleActionBarMarker_Recreate(tweetId) ==
    /\ \/ /\ tweetId \notin DOMAIN processedTweets
          /\ processedTweets' = addEntry(processedTweets, tweetId, newEntry(TRUE))
          /\ tweetOps' = Append(tweetOps,
                                getPredictionMessage(tweetId, extractTweetData(tweetId, dateNow).content))
          /\ sent' = openChannel(sent, <<"getPrediction", tweetId>>)
       \/ /\ tweetId \in DOMAIN processedTweets
          /\ ~processedTweets[tweetId].hasButtons
          /\ processedTweets' = addEntry(processedTweets, tweetId, newEntry(TRUE))
          /\ UNCHANGED <<tweetOps, sent>>
    /\ UNCHANGED <<classifierVars, lastCall, storeVars, installed, settingsOps, responses,
                   settings, clicks, lastDecision>>

\* TwitterDOMHandler.handleActionBarMarker with an action bar found
handleActionBarMarker(tweetId) ==
    /\ \/ /\ tweetId \notin DOMAIN processedTweets
          /\ processedTweets' = addEntry(processedTweets, tweetId, newEntry(TRUE))
          /\ tweetOps' = Append(tweetOps,
                                getPredictionMessage(tweetId, extractTweetData(tweetId, dateNow).content))
          /\ sent' = openChannel(sent, <<"getPrediction", tweetId>>)
       \/ /\ tweetId \in DOMAIN processedTweets
          /\ ~processedTweets[tweetId].hasButtons
          /\ processedTweets' = [processedTweets EXCEPT ![tweetId].hasButtons = TRUE]
          /\ UNCHANGED <<tweetOps, sent>>
    /\ UNCHANGED <<classifierVars, lastCall, storeVars, installed, settingsOps, responses,
                   settings, clicks, lastDecision>>

\* click handler of a rating button: saveTweetRating is sent without a callback
clickRatingButton(tweetId, rating) ==
    /\ tweetId \in DOMAIN processedTweets
    /\ processedTweets[tweetId].hasButtons
    /\ ~processedTweets[tweetId].isHidden
    /\ Len(tweetOps) < MaxPending
    /\ clicks < MaxClicks
    /\ clicks' = clicks + 1
    /\ tweetOps' = Append(tweetOps,
                          [action |-> "saveTweetRating", await |-> "saveTweet",
                           req |-> <<"saveTweetRating", clicks + 1>>,
                           data |-> Merge(extractTweetData(tweetId, clickTime(clicks + 1)),
                                          [rating |-> rating, ratedAt |-> clickTime(clicks + 1)])])
    /\ sent' = openChannel(sent, <<"saveTweetRating", clicks + 1>>)
    /\ UNCHANGED <<classifierVars, lastCall, storeVars, installed, settingsOps, responses,
                   processedTweets, settings, lastDecision>>

\* the ledger entry after the callback stored the prediction
storePrediction(entry, response) ==
    LET stored == Merge(entry, [prediction |-> response.prediction,
                                confidence |-> response.confidence])
    IN  IF Has(response, "sentiment")
          THEN Merge(stored, [sentiment |-> response.sentiment])
          ELSE [f \in (DOMAIN stored) \ {"sentiment"} |-> stored[f]]

\* response callback of TwitterDOMHandler.getPrediction
getPredictionCallback(message, attached) ==
    /\ message \in responses
    /\ message.to = "getPrediction"
    /\ responses' = responses \ {message}
    /\ LET tweetId == message.tweetId
           response == message.response
       IN  IF tweetId \in DOMAIN processedTweets
             THEN LET stored == [processedTweets EXCEPT
                                   ![tweetId] = storePrediction(@, response)]
                      hide == shouldHide(response, settings)
                  IN  /\ processedTweets' = IF hide THEN hideTweet(stored, tweetId, attached)
                                                   ELSE stored
                      /\ lastDecision' = [pc |-> "decided", tweetId |-> tweetId,
                                          response |-> response, settings |-> settings,
                                          hide |-> hide]
             ELSE UNCHANGED <<processedTweets, lastDecision>>
    /\ UNCHANGED <<classifierVars, lastCall, storeVars, installed, tweetOps, settingsOps, sent,
                   settings, clicks>>

\* response callback of the getSettings request sent by init
getSettingsCallback(message) ==
    /\ message \in responses
    /\ message.to = "getSettings"
    /\ responses' = responses \ {message}
    /\ settings' = message.response
    /\ UNCHANGED <<classifierVars, lastCall, storeVars, installed, tweetOps, settingsOps, sent,
                   processedTweets, clicks, lastDecision>>

\* the Show Tweet button asking for the prediction of the tweet again
showTweet_Rerequest(tweetId) ==
    /\ tweetId \in DOMAIN processedTweets
    /\ processedTweets[tweetId].element.placeholders > 0
    /\ processedTweets' = [processedTweets EXCEPT
                             ![tweetId].isHidden = FALSE,
                             ![tweetId].element =
                                 [display |-> "", placeholders |-> @.placeholders - 1]]
    /\ tweetOps' = Append(tweetOps, getPredictionMessage(tweetId, extractTweetData(tweetId, dateNow).content))
    /\ UNCHANGED <<classifierVars, lastCall, storeVars, installed, settingsOps, responses,
                   sent, settings, clicks, lastDecision>>

\* click handler of the Show Tweet button of a placeholder in the page
showTweet(tweetId) ==
    /\ tweetId \in DOMAIN processedTweets
    /\ processedTweets[tweetId].element.placeholders > 0
    /\ processedTweets' = [processedTweets EXCEPT
                             ![tweetId].isHidden = FALSE,
                             ![tweetId].element =
                                 [display |-> "", placeholders |-> @.placeholders - 1]]
    /\ UNCHANGED <<classifierVars, lastCall, storeVars, backgroundVars, settings, clicks,
                   lastDecision>>

\* chrome.runtime.onMessage listener of the content script with the filter
\* re-evaluated: what is hidden is shown again when the settings change
onUpdateSettings_Unhide(newSettings) ==
    /\ settings' = Merge(settings, newSettings)
    /\ settings' # settings
    /\ processedTweets' = [id \in DOMAIN processedTweets |->
                             [processedTweets[id] EXCEPT !.isHidden = FALSE]]
    /\ UNCHANGED <<classifierVars, lastCall, storeVars, backgroundVars, clicks, lastDecision>>

\* the settings an updateSettings message to the content script can carry:
\* the filter switched on or off
SettingsMessages == SettingsChoices \cup {[filterEnabled |-> FALSE, filterThreshold |-> 50]}

\* chrome.runtime.onMessage listener of the content script
onUpdateSettings(newSettings) ==
    /\ settings' = Merge(settings, newSettings)
    /\ settings' # settings
    /\ UNCHANGED <<classifierVars, lastCall, storeVars, backgroundVars, processedTweets,
                   clicks, lastDecision>>

(***************************************************************************)
(* The classifier on its own: train and predict called with any input      *)
(***************************************************************************)
MaxTail == 2
MaxCalls == 2

FillerSizes == {0, minTrainingExamples - 1}

Tails == UNION {[1..n -> TweetKinds] : n \in 0..MaxTail}

TrainInputs == {Filler(n) \o tail : n \in FillerSizes, tail \in Tails}

NoTweets == <<>>

\* no store content, no request under way, nothing observed on the page
InitIdle ==
    /\ tweets = NoRecord
    /\ dbSettings = defaultSettings
    /\ installed = FALSE
    /\ tweetOps = <<>>
    /\ settingsOps = <<>>
    /\ responses = {}
    /\ sent = NoRecord
    /\ processedTweets = NoRecord
    /\ settings = defaultSettings
    /\ clicks = 0

InitClassifier ==
    /\ newClassifier
    /\ lastCall = [op |-> "none", seq |-> 0]
    /\ InitIdle
    /\ lastDecision = [pc |-> "none"]

\* the input of the call before this one when that call was a train
PrevTrain == IF lastCall.op = "train"
               THEN [prevOp |-> "train", prevTweets |-> lastCall.tweets]
               ELSE [prevOp |-> lastCall.op, prevTweets |-> NoTweets]

TrainCall(tweetList) ==
    /\ lastCall.seq < MaxCalls
    /\ LET r == train(tweetList, classifier)
       IN  /\ trained' = r.trained
           /\ likedWords' = r.likedWords
           /\ dislikedWords' = r.dislikedWords
           /\ lastCall' = [op |-> "train", seq |-> lastCall.seq + 1, tweets |-> tweetList,
                           ok |-> r.ok, pre |-> classifier,
                           prevOp |-> PrevTrain.prevOp, prevTweets |-> PrevTrain.prevTweets]
    /\ UNCHANGED <<systemVars, lastDecision>>

PredictCall(text) ==
    /\ lastCall.seq < MaxCalls
    /\ lastCall' = [op |-> "predict", seq |-> lastCall.seq + 1, text |-> text,
                    result |-> predict(text, classifier), pre |-> classifier,
                    prevOk |-> (lastCall.op = "train" /\ lastCall.ok),
                    prevTweets |-> PrevTrain.prevTweets]
    /\ UNCHANGED <<classifierVars, systemVars, lastDecision>>

SentimentCall(text) ==
    /\ lastCall.seq < MaxCalls
    /\ lastCall' = [op |-> "sentiment", seq |-> lastCall.seq + 1, text |-> text,
                    result |-> generateSimpleSentiment(text)]
    /\ UNCHANGED <<classifierVars, systemVars, lastDecision>>

NextClassifier ==
    \/ \E tweetList \in TrainInputs : TrainCall(tweetList)
    \/ \E text \in Texts : PredictCall(text)
    \/ \E text \in Texts : SentimentCall(text)

SpecClassifier == InitClassifier /\ [][NextClassifier]_vars

(***************************************************************************)
(* The hide decision on its own: taken on any response and any settings    *)
(***************************************************************************)
MaxDenominator == 4

Labels == {"like", "dislike", Null}

Confidences == {Quot(n, d) : n \in 0..MaxDenominator, d \in 1..MaxDenominator}
                 \cap {q \in (0..MaxDenominator) \X (1..MaxDenominator) : q[1] <= q[2]}

\* response objects with and without the prediction and confidence fields
HideResponses ==
    {[prediction |-> l, confidence |-> c] : l \in Labels, c \in Confidences}
      \cup {[prediction |-> l, confidence |-> One, isUserRated |-> TRUE] :
              l \in {"like", "dislike"}}
      \cup {[prediction |-> l] : l \in Labels}
      \cup {[confidence |-> c] : c \in Confidences}
      \cup {NoRecord}

HideSettings == [filterEnabled : BOOLEAN, filterThreshold : 0..100]

InitHide ==
    /\ newClassifier
    /\ lastCall = [op |-> "none", seq |-> 0]
    /\ InitIdle
    /\ lastDecision \in {[pc |-> "drawn", response |-> r, settings |-> st] :
                           r \in HideResponses, st \in HideSettings}

Decide ==
    /\ lastDecision.pc = "drawn"
    /\ lastDecision' = [pc |-> "decided", response |-> lastDecision.response,
                        settings |-> lastDecision.settings,
                        hide |-> shouldHide(lastDecision.response, lastDecision.settings)]
    /\ UNCHANGED <<classifierVars, lastCall, systemVars>>

NextHide == Decide

SpecHide == InitHide /\ [][NextHide]_vars

(***************************************************************************)
(* The extension: store, background script, popup and content script       *)
(***************************************************************************)
\* the rated tweets a store holds from earlier sessions
CorpusSizes == {minTrainingExamples - 1, minTrainingExamples}

Corpus(n) == [id \in {100 + i : i \in 1..n} |->
                Merge(Filler(n)[id - 100], [id |-> id, ratedAt |-> 0])]

\* the ratings the first tweet of the page can carry from an earlier session
PriorRatings == {0, 1, -1}

StoreWith(n, prior) ==
    IF prior = 0 THEN Corpus(n)
    ELSE saveTweet(Corpus(n), Merge(extractTweetData(1, 0), [rating |-> prior, ratedAt |-> 0]))

\* the content script's init has sent getSettings
InitSystem ==
    /\ \E n \in CorpusSizes, prior \in PriorRatings : tweets = StoreWith(n, prior)
    /\ dbSettings = defaultSettings
    /\ installed = FALSE
    /\ tweetOps = <<>>
    /\ settingsOps = <<[action |-> "getSettings", await |-> "getSettings",
                        req |-> <<"getSettings", 1>>]>>
    /\ responses = {}
    /\ sent = openChannel(NoRecord, <<"getSettings", 1>>)
    /\ processedTweets = NoRecord
    /\ settings = defaultSettings
    /\ clicks = 0

Init ==
    /\ newClassifier
    /\ lastCall = [op |-> "none", seq |-> 0]
    /\ InitSystem
    /\ lastDecision = [pc |-> "none"]

Next ==
    \/ onInstalled
    \/ onInstalled_train
    \/ saveTweetRating_saveTweet
    \/ saveTweetRating_train
    \/ getPrediction_respond
    \/ getSettings_respond
    \/ updateSettings_update
    \/ \E newSettings \in SettingsChoices : saveSettings(newSettings)
    \/ \E tweetId \in TweetIds, injected \in BOOLEAN : processTweet_new(tweetId, injected)
    \/ \E tweetId \in TweetIds : processTweet_known(tweetId)
    \/ \E tweetId \in TweetIds : handleActionBarMarker(tweetId)
    \/ \E tweetId \in TweetIds, rating \in {1, -1} : clickRatingButton(tweetId, rating)
    \/ \E message \in responses, attached \in BOOLEAN :
          getPredictionCallback(message, attached)
    \/ \E message \in responses : getSettingsCallback(message)
    \/ \E tweetId \in TweetIds : showTweet(tweetId)
    \/ \E newSettings \in SettingsMessages : onUpdateSettings(newSettings)

Spec == Init /\ [][Next]_vars

(***************************************************************************)
(* The extension with store operations that may be rejected.  An operation *)
(* of the store settles, so the handler at the head of a queue goes on.    *)
(***************************************************************************)
NextFailing ==
    \/ Next
    \/ onInstalled_catch
    \/ saveTweetRating_catch
    \/ getPrediction_catch
    \/ getSettings_catch
    \/ updateSettings_catch

\* an operation on db.tweets settles
tweetsSettle ==
    \/ onInstalled_catch
    \/ saveTweetRating_catch
    \/ getPrediction_catch
    \/ onInstalled_train
    \/ saveTweetRating_saveTweet
    \/ saveTweetRating_train
    \/ getPrediction_respond

\* an operation on db.settings settles
settingsSettle ==
    \/ getSettings_catch
    \/ updateSettings_catch
    \/ getSettings_respond
    \/ updateSettings_update

\* a store with just the number of ratings the classifier needs
InitFailing ==
    /\ newClassifier
    /\ lastCall = [op |-> "none", seq |-> 0]
    /\ InitSystem
    /\ tweets = StoreWith(minTrainingExamples, 0)
    /\ lastDecision = [pc |-> "none"]

SpecFailing ==
    InitFailing /\ [][NextFailing]_vars /\ WF_vars(tweetsSettle) /\ WF_vars(settingsSettle)

(***************************************************************************)
(* Properties of train and predict                                         *)
(***************************************************************************)
TrainCalled == lastCall.op = "train"

\* the number of items of a list that carry a rating
NumLabeled(tweetList) == Cardinality({i \in DOMAIN tweetList : Has(tweetList[i], "rating")})

\* the number of items of a list that carry a rating and a non-empty text
NumLabeledWithText(tweetList) ==
    Cardinality({i \in DOMAIN tweetList : Has(tweetList[i], "rating") /\ tweetList[i].content # <<>>})

\* the number of occurrences of term t in a term sequence
OccurrencesIn(t, words) == Cardinality({j \in DOMAIN words : words[j] = t})

\* the number of occurrences of t in the tokenized texts of the items rated r
RECURSIVE Occurrences(_, _, _, _)
Occurrences(t, tweetList, r, i) ==
    IF i > Len(tweetList) THEN 0
    ELSE (IF Has(tweetList[i], "rating") /\ tweetList[i].rating = r
            THEN OccurrencesIn(t, processText(tweetList[i].content)) ELSE 0)
         + Occurrences(t, tweetList, r, i + 1)

TermsOf(tweetList) == UNION {Range(processText(tweetList[i].content)) : i \in DOMAIN tweetList}

IsPermutation(a, b) ==
    /\ Len(a) = Len(b)
    /\ \A x \in Range(a) \cup Range(b) :
          Cardinality({i \in DOMAIN a : a[i] = x}) = Cardinality({i \in DOMAIN b : b[i] = x})

\* C2: while trained is false, predict returns {none, 0} for every text, and
\* every predict call made on an untrained model returned {none, 0}.
C2_UntrainedPredictsNone ==
    /\ ~trained => \A text \in Texts : predict(text, classifier) = NoPrediction
    /\ (lastCall.op = "predict" /\ ~lastCall.pre.trained) => lastCall.result = NoPrediction

C2_Witness ==
    /\ lastCall.op = "predict"
    /\ lastCall.seq = 2
    /\ ~trained
    /\ processText(lastCall.text) # <<>>

\* C6: a train call given fewer than minTrainingExamples labeled items returns
\* false and leaves likedWords and dislikedWords as they were before the call.
C6_TooFewKeepsMappings ==
    (TrainCalled /\ NumLabeled(lastCall.tweets) < minTrainingExamples) =>
        /\ lastCall.ok = FALSE
        /\ likedWords = lastCall.pre.likedWords
        /\ dislikedWords = lastCall.pre.dislikedWords

C6_Witness ==
    /\ TrainCalled
    /\ NumLabeled(lastCall.tweets) < minTrainingExamples
    /\ NumLabeled(lastCall.tweets) > 0
    /\ lastCall.pre.trained
    /\ lastCall.pre.likedWords # EmptyMap
    /\ lastCall.pre.dislikedWords # EmptyMap

\* C7 as claimed: a trained model that is given fewer than minTrainingExamples
\* labeled items reverts to untrained (isReady false, predict {none, 0}).
C7_RevertsToUntrained ==
    (TrainCalled /\ lastCall.pre.trained
       /\ NumLabeled(lastCall.tweets) < minTrainingExamples) =>
        /\ ~isReady(classifier)
        /\ \A text \in Texts : predict(text, classifier) = NoPrediction

\* C7 as amended: a train call that returns false leaves the trained flag as
\* it was, so a trained model stays trained and predicts as before; after a
\* train call trained holds iff the call succeeded or the model was trained.
C7_TooFewKeepsTrained ==
    TrainCalled =>
        /\ ~lastCall.ok =>
              /\ isReady(classifier) = lastCall.pre.trained
              /\ \A text \in Texts :
                    predict(text, classifier) = predict(text, lastCall.pre)
        /\ trained = (lastCall.ok \/ lastCall.pre.trained)

C7_Witness ==
    /\ TrainCalled
    /\ lastCall.pre.trained
    /\ NumLabeled(lastCall.tweets) < minTrainingExamples
    /\ ~lastCall.ok
    /\ isReady(classifier)
    /\ \E text \in Texts : predict(text, classifier).prediction = "dislike"

\* C8 as claimed: train returns true and sets trained whenever it is given at
\* least minTrainingExamples labeled items, whatever their text, and returns
\* false only when it is given fewer.
C8_EnoughLabeledTrains ==
    TrainCalled =>
        /\ NumLabeled(lastCall.tweets) >= minTrainingExamples => (lastCall.ok /\ trained)
        /\ ~lastCall.ok => NumLabeled(lastCall.tweets) < minTrainingExamples

\* C8 as amended: train returns true, and then sets trained, exactly when at
\* least minTrainingExamples of the items carry a rating and a non-empty text.
C8_EnoughLabeledWithTextTrains ==
    TrainCalled =>
        /\ lastCall.ok = (NumLabeledWithText(lastCall.tweets) >= minTrainingExamples)
        /\ lastCall.ok => trained

C8_Witness ==
    /\ TrainCalled
    /\ ~lastCall.pre.trained
    /\ lastCall.ok
    /\ trained
    /\ NumLabeledWithText(lastCall.tweets) = minTrainingExamples
    /\ \E i \in DOMAIN lastCall.tweets : lastCall.tweets[i].content = TxtEmpty

\* C9: after a successful train(S) the liked count of every term is its number
\* of occurrences in the tokenized texts of the items of S rated +1, the
\* disliked count that number for the items rated -1, whatever was counted before.
C9_CountsAreOccurrences ==
    (TrainCalled /\ lastCall.ok) =>
        \A t \in TermsOf(lastCall.tweets) \cup DOMAIN likedWords \cup DOMAIN dislikedWords
                 \cup DOMAIN lastCall.pre.likedWords \cup DOMAIN lastCall.pre.dislikedWords :
            /\ mapGet(likedWords, t) = Occurrences(t, lastCall.tweets, 1, 1)
            /\ mapGet(dislikedWords, t) = Occurrences(t, lastCall.tweets, -1, 1)

C9_Witness ==
    /\ TrainCalled
    /\ lastCall.ok
    /\ lastCall.pre.trained
    /\ lastCall.pre.dislikedWords # dislikedWords
    /\ \E i \in DOMAIN lastCall.tweets :
          /\ Has(lastCall.tweets[i], "rating")
          /\ \E t \in Range(processText(lastCall.tweets[i].content)) :
                OccurrencesIn(t, processText(lastCall.tweets[i].content)) > 1

\* C10: a train call whose input is the input of the preceding train call, or
\* a permutation of it, leaves likedWords, dislikedWords and trained equal to
\* what the preceding call produced.
C10_RetrainSameItems ==
    (TrainCalled /\ lastCall.prevOp = "train"
       /\ IsPermutation(lastCall.tweets, lastCall.prevTweets)) =>
        /\ likedWords = lastCall.pre.likedWords
        /\ dislikedWords = lastCall.pre.dislikedWords
        /\ trained = lastCall.pre.trained

C10_Witness ==
    /\ TrainCalled
    /\ lastCall.prevOp = "train"
    /\ lastCall.ok
    /\ IsPermutation(lastCall.tweets, lastCall.prevTweets)
    /\ lastCall.tweets # lastCall.prevTweets
    /\ likedWords # EmptyMap
    /\ dislikedWords # EmptyMap

PredictCalled == lastCall.op = "predict"

\* the two scores of the text of the last predict call on the model it was made on
LikeScore == score(processText(lastCall.text), 1, lastCall.pre.likedWords)

DislikeScore == score(processText(lastCall.text), 1, lastCall.pre.dislikedWords)

\* C11: on a trained model and a text with likeScore + dislikeScore > 0,
\* predict returns like when likeScore > dislikeScore and dislike in every
\* other case, an exact tie included.
C11_LikeOnlyWhenStrictlyGreater ==
    (PredictCalled /\ lastCall.pre.trained /\ LikeScore + DislikeScore > 0) =>
        /\ LikeScore > DislikeScore => lastCall.result.prediction = "like"
        /\ LikeScore <= DislikeScore => lastCall.result.prediction = "dislike"

C11_Witness ==
    /\ PredictCalled
    /\ lastCall.pre.trained
    /\ LikeScore = DislikeScore
    /\ LikeScore > 0
    /\ lastCall.result.prediction = "dislike"

\* a term of the text of the last predict call is a key of one of the mappings
Overlaps ==
    \E t \in Range(processText(lastCall.text)) :
        t \in (DOMAIN lastCall.pre.likedWords) \cup (DOMAIN lastCall.pre.dislikedWords)

\* C12: on a trained model predict returns {none, 0} when the text has no
\* term or none of its terms is in the liked or the disliked mapping; it
\* returns a label only when a term of the text is in one of the mappings.
C12_NoOverlapPredictsNone ==
    (PredictCalled /\ lastCall.pre.trained) =>
        /\ ~Overlaps => lastCall.result = NoPrediction
        /\ lastCall.result.prediction # Null => Overlaps

C12_Witness ==
    /\ PredictCalled
    /\ lastCall.pre.trained
    /\ processText(lastCall.text) # <<>>
    /\ ~Overlaps
    /\ lastCall.result = NoPrediction

\* a term of the text occurs in an item of the list that is rated r
OccursRated(text, tweetList, r) ==
    \E t \in Range(processText(text)) : Occurrences(t, tweetList, r, 1) > 0

\* C13: after a successful train, a text with a term of the items rated like
\* and no term of the items rated dislike is predicted like with confidence
\* exactly 1.0 (its dislikeScore is 0); symmetrically, a text with a term of
\* the items rated dislike and none of the items rated like is predicted
\* dislike with confidence exactly 1.0.
C13_OneSidedTextIsCertain ==
    (PredictCalled /\ lastCall.prevOk) =>
        /\ (OccursRated(lastCall.text, lastCall.prevTweets, 1)
              /\ ~OccursRated(lastCall.text, lastCall.prevTweets, -1)) =>
                 lastCall.result = [prediction |-> "like", confidence |-> One]
        /\ (OccursRated(lastCall.text, lastCall.prevTweets, -1)
              /\ ~OccursRated(lastCall.text, lastCall.prevTweets, 1)) =>
                 lastCall.result = [prediction |-> "dislike", confidence |-> One]

C13_Witness ==
    /\ PredictCalled
    /\ lastCall.prevOk
    /\ NumLabeledWithText(lastCall.prevTweets) = minTrainingExamples
    /\ \E i \in DOMAIN lastCall.prevTweets : lastCall.prevTweets[i] = DislikeBad
    /\ OccursRated(lastCall.text, lastCall.prevTweets, 1)
    /\ ~OccursRated(lastCall.text, lastCall.prevTweets, -1)
    /\ lastCall.result = [prediction |-> "like", confidence |-> One]

\* C14: when predict returns a label the confidence is the share of the
\* winning score in likeScore + dislikeScore; it is in (0,1] and at least
\* 1/2, above 1/2 for like; the confidence is 0 exactly when the label is none.
C14_ConfidenceIsWinningShare ==
    PredictCalled =>
        LET r == lastCall.result
            c == r.confidence
        IN  /\ r.prediction = "like" =>
                  /\ c = Quot(LikeScore, LikeScore + DislikeScore)
                  /\ 2 * c[1] > c[2]
            /\ r.prediction = "dislike" =>
                  /\ c = Quot(DislikeScore, LikeScore + DislikeScore)
                  /\ 2 * c[1] >= c[2]
            /\ r.prediction # Null => (c[1] > 0 /\ c[2] > 0 /\ c[1] <= c[2])
            /\ (c = Zero) <=> (r.prediction = Null)

C14_Witness ==
    /\ PredictCalled
    /\ lastCall.result = [prediction |-> "like", confidence |-> <<3, 5>>]

\* [i, j] is a maximal run of non-whitespace characters of the text
IsWordAt(text, i, j) ==
    /\ i <= j
    /\ \A k \in i..j : ~IsSpace(text[k])
    /\ i = 1 \/ IsSpace(text[i - 1])
    /\ j = Len(text) \/ IsSpace(text[j + 1])

\* the number of whitespace-separated words of the text that, in lower case
\* and with their punctuation, are in the lexicon
LexiconCount(text, lexicon) ==
    Cardinality({ij \in (DOMAIN text) \X (DOMAIN text) :
                    /\ IsWordAt(text, ij[1], ij[2])
                    /\ toLowerCase(SubSeq(text, ij[1], ij[2])) \in lexicon})

\* C17: sentiment(text) is Positive when more whitespace-separated words are
\* in the positive lexicon than in the negative one, Negative in the reverse
\* case, Neutral on a tie; case is ignored and punctuation is not stripped.
C17_SentimentByLexiconCounts ==
    lastCall.op = "sentiment" =>
        LET positiveCount == LexiconCount(lastCall.text, positiveWords)
            negativeCount == LexiconCount(lastCall.text, negativeWords)
        IN  lastCall.result = IF positiveCount > negativeCount THEN "Positive"
                              ELSE IF negativeCount > positiveCount THEN "Negative"
                              ELSE "Neutral"

C17_Witness ==
    /\ lastCall.op = "sentiment"
    /\ lastCall.text = TxtBad
    /\ processText(lastCall.text) = << <<"b","a","d">> >>
    /\ lastCall.result = "Neutral"

(***************************************************************************)
(* Properties of the background handlers and of the hide decision          *)
(***************************************************************************)
\* the response the background owes for an item that carries the given rating
UserRatedResponse(rating) ==
    [prediction |-> IF rating = 1 THEN "like" ELSE "dislike", confidence |-> One,
     isUserRated |-> TRUE]

\* C1: every getPrediction response sent for an item that carries a rating in
\* the store is {like for +1 / dislike for -1, confidence 1.0, isUserRated
\* true}, whatever the classifier holds when the response is computed.
C1_RatedItemIsUserRated ==
    [][\A m \in responses' \ responses :
          (m.to = "getPrediction" /\ Has(getTweet(tweets, m.tweetId), "rating")) =>
              m.response = UserRatedResponse(getTweet(tweets, m.tweetId).rating)]_vars

C1_Witness ==
    \E m \in responses :
        /\ m.to = "getPrediction"
        /\ Has(m.existingTweet, "rating")
        /\ m.existingTweet.rating = 1
        /\ m.model.trained
        /\ predict(m.content, m.model).prediction = "dislike"
        /\ m.response = UserRatedResponse(1)

Decided == lastDecision.pc = "decided"

DecidedOnDislike ==
    /\ Decided
    /\ Has(lastDecision.response, "prediction")
    /\ lastDecision.response.prediction = "dislike"
    /\ Has(lastDecision.response, "confidence")

\* C3: the hide decision is true iff filterEnabled is true, the label is
\* dislike, the confidence is defined, and confidence > filterThreshold/100,
\* for every threshold in 0..100.
C3_HideIffAllFour ==
    Decided =>
        (lastDecision.hide <=>
            /\ lastDecision.settings.filterEnabled
            /\ DecidedOnDislike
            /\ lastDecision.response.confidence[1] * 100
                  > lastDecision.settings.filterThreshold * lastDecision.response.confidence[2])

C3_Witness ==
    /\ Decided
    /\ lastDecision.hide
    /\ lastDecision.settings.filterThreshold = 50
    /\ lastDecision.response = [prediction |-> "dislike", confidence |-> <<3, 4>>]

\* C4: with the filter enabled, a dislike whose confidence equals
\* filterThreshold/100 is not hidden and one whose confidence is above it is
\* hidden; a dislike of confidence 1.0 is hidden iff the threshold is below 100.
C4_StrictThreshold ==
    (DecidedOnDislike /\ lastDecision.settings.filterEnabled) =>
        LET c == lastDecision.response.confidence
            t == lastDecision.settings.filterThreshold
        IN  /\ c[1] * 100 = t * c[2] => ~lastDecision.hide
            /\ c[1] * 100 > t * c[2] => lastDecision.hide
            /\ c = One => (lastDecision.hide <=> t < 100)

C4_Witness ==
    /\ DecidedOnDislike
    /\ lastDecision.settings = [filterEnabled |-> TRUE, filterThreshold |-> 100]
    /\ lastDecision.response = UserRatedResponse(-1)
    /\ ~lastDecision.hide

IsHiddenIn(ledger, tweetId) == tweetId \in DOMAIN ledger /\ ledger[tweetId].isHidden

\* C5: an item becomes hidden only in the step that delivers a prediction for
\* it whose label is dislike, while settings.filterEnabled is true: a
\* prediction of none or like, or any prediction while the filter is off,
\* never hides.
C5_HiddenOnlyByDislikeWhileEnabled ==
    [][\A tweetId \in TweetIds :
          (IsHiddenIn(processedTweets', tweetId) /\ ~IsHiddenIn(processedTweets, tweetId)) =>
              /\ settings.filterEnabled
              /\ \E m \in responses \ responses' :
                    /\ m.to = "getPrediction"
                    /\ m.tweetId = tweetId
                    /\ m.response.prediction = "dislike"]_vars

C5_Witness ==
    /\ Decided
    /\ lastDecision.settings.filterEnabled
    /\ lastDecision.response.prediction = "like"
    /\ lastDecision.response.confidence = One
    /\ ~lastDecision.hide
    /\ ~IsHiddenIn(processedTweets, lastDecision.tweetId)

\* the getPrediction responses on their way to the content script
PredictionResponses == {m \in responses : m.to = "getPrediction"}

\* C15: the getPrediction response for an item without a rating carries
\* isUserRated = false, when the classifier is ready and when it is not.
C15_UnratedIsNotUserRated ==
    \A m \in PredictionResponses :
        ~Has(m.existingTweet, "rating") =>
            /\ Has(m.response, "isUserRated")
            /\ m.response.isUserRated = FALSE

\* C16: a getPrediction response computed from the stored item and the
\* classifier has a sentiment field iff the item has no rating and isReady()
\* was false when the response was computed; the field is then the heuristic
\* sentiment of the text.
C16_SentimentOnlyWhileUntrained ==
    \A m \in PredictionResponses :
        /\ Has(m.response, "sentiment") <=>
              (~Has(m.existingTweet, "rating") /\ ~isReady(m.model))
        /\ Has(m.response, "sentiment") =>
              m.response.sentiment = generateSimpleSentiment(m.content)

C16_Witness ==
    /\ ~trained
    /\ \E m \in PredictionResponses :
          /\ ~Has(m.existingTweet, "rating")
          /\ ~isReady(m.model)
          /\ m.response = [prediction |-> Null, confidence |-> Zero, sentiment |-> "Neutral"]

\* the ids of the records that carry a rating
RatedIds == {id \in DOMAIN tweets : Has(tweets[id], "rating")}

\* the step in which the handler of the request at the head of tweetOps goes
\* from db.saveTweet on to db.getRatedTweets
SaveTweetResolves ==
    /\ HeadIs(tweetOps, "saveTweetRating", "saveTweet")
    /\ tweetOps' # <<>>
    /\ tweetOps'[Len(tweetOps')].action = "saveTweetRating"
    /\ tweetOps'[Len(tweetOps')].await = "getRatedTweets"
    /\ tweetOps'[Len(tweetOps')].req = Head(tweetOps).req

\* C18: the store holds one record per id, under its id; a rating that is
\* persisted puts the request's record, with its rating and ratedAt, in the
\* place of any record of that id and leaves the other records alone, and
\* nothing else changes the store; getRatedTweets lists every rated id once.
C18_RatingsAreOverwrites ==
    /\ [](\A id \in DOMAIN tweets : tweets[id].id = id)
    /\ [](LET rated == getRatedTweets(tweets)
          IN  /\ Len(rated) = Cardinality(RatedIds)
              /\ \A id \in RatedIds :
                    Cardinality({i \in DOMAIN rated : rated[i].id = id}) = 1)
    /\ [][/\ tweets' # tweets => SaveTweetResolves
          /\ SaveTweetResolves =>
                LET data == Head(tweetOps).data
                IN  /\ DOMAIN tweets' = (DOMAIN tweets) \cup {data.id}
                    /\ tweets'[data.id].rating = data.rating
                    /\ tweets'[data.id].ratedAt = data.ratedAt
                    /\ \A id \in (DOMAIN tweets) \ {data.id} : tweets'[id] = tweets[id]]_vars

C18_Witness ==
    /\ <<"getPrediction", 1>> \in DOMAIN sent
    /\ sent[<<"getPrediction", 1>>] = <<UserRatedResponse(1)>>
    /\ 1 \in DOMAIN tweets
    /\ tweets[1].rating = -1
    /\ tweets[1].ratedAt = clickTime(1)
    /\ Cardinality({i \in DOMAIN getRatedTweets(tweets) : getRatedTweets(tweets)[i].id = 1}) = 1

\* C19: when a saveTweetRating request is sent a response with success = true,
\* the store holds the rating of the request, or a rating of the same item
\* given after it.
C19_PersistedBeforeSuccess ==
    [][\A req \in DOMAIN sent :
          (/\ req[1] = "saveTweetRating"
           /\ sent'[req] # sent[req]
           /\ sent'[req][Len(sent'[req])].success) =>
              LET data == Head(tweetOps).data
              IN  /\ Head(tweetOps).req = req
                  /\ data.id \in DOMAIN tweets
                  /\ Has(tweets[data.id], "rating")
                  /\ tweets[data.id].ratedAt >= data.ratedAt
                  /\ tweets[data.id].ratedAt = data.ratedAt => tweets[data.id] = data]_vars

C19_Witness ==
    /\ <<"saveTweetRating", 1>> \in DOMAIN sent
    /\ sent[<<"saveTweetRating", 1>>] = <<[success |-> TRUE]>>
    /\ 1 \in DOMAIN tweets
    /\ tweets[1].ratedAt = clickTime(1)

(***************************************************************************)
(* Properties of the request/response protocol                             *)
(***************************************************************************)
\* every request the content script and the popup can send
Requests ==
    {<<"getSettings", 1>>}
      \cup {<<"getPrediction", tweetId>> : tweetId \in TweetIds}
      \cup {<<"saveTweetRating", k>> : k \in 1..MaxClicks}
      \cup {<<"updateSettings", k>> : k \in 1..MaxSaves}

\* the handler of the request has not returned yet
Pending(req) ==
    \/ \E i \in DOMAIN tweetOps : Has(tweetOps[i], "req") /\ tweetOps[i].req = req
    \/ \E i \in DOMAIN settingsOps : settingsOps[i].req = req

\* C20: every request for saveTweetRating, getPrediction, getSettings or
\* updateSettings is sent exactly one response: none while its handler runs,
\* one from the moment its handler returns, never a second; and its handler
\* does return, also when a store operation is rejected and while other
\* requests are handled: from every moment on there is a later moment at
\* which each request sent so far has its one response.
C20_ExactlyOneResponse ==
    /\ [](\A req \in DOMAIN sent :
             IF Pending(req) THEN sent[req] = <<>> ELSE Len(sent[req]) = 1)
    /\ []<>(\A req \in DOMAIN sent : Len(sent[req]) = 1)

C20_Witness ==
    /\ \A req \in Requests : req \in DOMAIN sent /\ Len(sent[req]) = 1
    /\ sent[<<"saveTweetRating", 1>>][1].success = FALSE
    /\ sent[<<"updateSettings", 1>>][1].success = TRUE
    /\ Has(sent[<<"getPrediction", 1>>][1], "error")

(***************************************************************************)
(* The settings alone: the settings table, the getSettings and             *)
(* updateSettings handlers, the popup and the content script's copy        *)
(***************************************************************************)
\* what the settings table can hold under the key 'default': nothing, the
\* record put by the 'ready' hook, a record the popup has saved
StoredSettings ==
    {NoRecord, defaultSettings, [filterEnabled |-> TRUE, filterThreshold |-> 80]}

\* the values the popup's form can send
SettingsInputs == [filterEnabled : BOOLEAN, filterThreshold : {0, 50, 100}]

InitSettings ==
    /\ newClassifier
    /\ lastCall = [op |-> "none", seq |-> 0]
    /\ tweets = NoRecord
    /\ dbSettings \in StoredSettings
    /\ installed = FALSE
    /\ tweetOps = <<>>
    /\ settingsOps = <<[action |-> "getSettings", await |-> "getSettings",
                        req |-> <<"getSettings", 1>>]>>
    /\ responses = {}
    /\ sent = openChannel(NoRecord, <<"getSettings", 1>>)
    /\ processedTweets = NoRecord
    /\ settings = defaultSettings
    /\ clicks = 0
    /\ lastDecision = [pc |-> "none"]

NextSettings ==
    \/ getSettings_respond
    \/ getSettings_catch
    \/ updateSettings_update
    \/ updateSettings_catch
    \/ \E newSettings \in SettingsInputs : saveSettings(newSettings)
    \/ \E message \in responses : getSettingsCallback(message)
    \/ \E newSettings \in SettingsInputs : onUpdateSettings(newSettings)
    \/ loadStats
    \/ default_respond
    \/ \E message \in responses : loadStatsCallback(message)

SpecSettings == InitSettings /\ [][NextSettings]_vars

(***************************************************************************)
(* Properties of the settings                                              *)
(***************************************************************************)
\* the response sent to a getSettings request in this step, if any
GetSettingsSent(req) ==
    /\ req[1] = "getSettings"
    /\ sent'[req] # sent[req]

\* C21: the response to getSettings has both fields of Settings: it is the
\* stored record when there is one, filterEnabled=false, filterThreshold=50
\* when there is none, and the same two values (with the error) when the
\* read of the store is rejected; once the handler has returned the request
\* has its response.
C21_GetSettingsIsComplete ==
    /\ [][\A req \in DOMAIN sent : GetSettingsSent(req) =>
            LET r == sent'[req][Len(sent'[req])]
            IN  /\ Has(r, "filterEnabled") /\ Has(r, "filterThreshold")
                /\ IF Has(r, "error")
                     THEN ~r.filterEnabled /\ r.filterThreshold = 50
                   ELSE IF dbSettings = NoRecord
                     THEN r = [filterEnabled |-> FALSE, filterThreshold |-> 50]
                   ELSE r = dbSettings]_vars
    /\ [](\A req \in DOMAIN sent :
            (req[1] = "getSettings" /\ ~Pending(req)) => Len(sent[req]) = 1)

C21_Witness ==
    /\ dbSettings = NoRecord
    /\ sent[<<"getSettings", 1>>] = <<[filterEnabled |-> FALSE, filterThreshold |-> 50]>>

(***************************************************************************)
(* Properties of a rejected store operation                                *)
(***************************************************************************)
\* the handler of the request returns in this step
Returns(req) == Pending(req) /\ ~Pending(req)'

\* the response sent on the channel of the request in this step
Sent(req) == sent'[req][Len(sent'[req])]

\* C22: a saveTweetRating request whose handler returns at the await of
\* db.saveTweet (the put was rejected) is answered success=false with an
\* error and leaves the store as it was; and whenever a saveTweetRating
\* request is answered success=false, at either await, the response carries
\* an error and the classifier's word counts and trained flag are the same
\* after the step as before.
C22_RejectedSaveFailsWithoutTraining ==
    [][\A req \in DOMAIN sent : req[1] = "saveTweetRating" =>
         /\ (Returns(req) /\ Head(tweetOps).await = "saveTweet") =>
               /\ Len(sent'[req]) = Len(sent[req]) + 1
               /\ Sent(req).success = FALSE
               /\ tweets' = tweets
         /\ (sent'[req] # sent[req] /\ Sent(req).success = FALSE) =>
               /\ Has(Sent(req), "error")
               /\ UNCHANGED classifierVars]_vars

\* the request failed while a training on the stored ratings would have
\* turned the untrained classifier into a trained one
C22_Witness ==
    /\ <<"saveTweetRating", 1>> \in DOMAIN sent
    /\ sent[<<"saveTweetRating", 1>>] = <<[success |-> FALSE, error |-> storeError]>>
    /\ ~trained
    /\ train(getRatedTweets(tweets), classifier).trained

(***************************************************************************)
(* The getPrediction handler on its own: any message, any stored record,   *)
(* an untrained or a trained classifier                                    *)
(***************************************************************************)
TxtBlank == <<" ", "\n", "\t">>

\* getPrediction messages, the content field present or not
PredictionMessages ==
    {[action |-> "getPrediction", tweetId |-> 1, content |-> text] :
        text \in Texts \cup {TxtBlank}}
      \cup {[action |-> "getPrediction", tweetId |-> 1]}

\* what db.getTweet resolves to: undefined or a rated record
ExistingTweets ==
    {NoRecord} \cup {[id |-> 1, content |-> TxtBad, rating |-> r, ratedAt |-> 0] : r \in {1, -1}}

\* the classifier as constructed and as trained on stored ratings
Models ==
    {[trained |-> FALSE, likedWords |-> EmptyMap, dislikedWords |-> EmptyMap]}
      \cup {LET r == train(Filler(n),
                          [trained |-> FALSE, likedWords |-> EmptyMap,
                           dislikedWords |-> EmptyMap])
            IN  [trained |-> r.trained, likedWords |-> r.likedWords,
                 dislikedWords |-> r.dislikedWords] :
            n \in {minTrainingExamples, minTrainingExamples + 1}}

InitPrediction ==
    /\ \E model \in Models :
          /\ trained = model.trained
          /\ likedWords = model.likedWords
          /\ dislikedWords = model.dislikedWords
    /\ \E message \in PredictionMessages, existingTweet \in ExistingTweets :
          lastCall = [op |-> "message", seq |-> 0, message |-> message,
                      existingTweet |-> existingTweet]
    /\ InitIdle
    /\ lastDecision = [pc |-> "none"]

GetPredictionCall ==
    /\ lastCall.op = "message"
    /\ lastCall' = [op |-> "getPrediction", seq |-> 1, message |-> lastCall.message,
                    existingTweet |-> lastCall.existingTweet,
                    response |-> getPredictionCase(lastCall.existingTweet, lastCall.message,
                                                   classifier)]
    /\ UNCHANGED <<classifierVars, systemVars, lastDecision>>

NextPrediction == GetPredictionCall

SpecPrediction == InitPrediction /\ [][NextPrediction]_vars

\* the text of the message has no character other than whitespace, or is missing
NoText(message) ==
    ~Has(message, "content") \/ \A i \in DOMAIN message.content : IsSpace(message.content[i])

Resighted(tweetId) ==
    /\ tweetId \in DOMAIN processedTweets
    /\ ~processedTweets[tweetId].hasButtons
    /\ processedTweets'[tweetId].hasButtons

\* what the background would answer for the tweet now
CurrentResult(tweetId) ==
    getPredictionResponse(getTweet(tweets, tweetId), extractTweetData(tweetId, dateNow).content,
                          classifier)

\* the ledger holds a prediction for the tweet that is not the current one
NewerResultAvailable(tweetId) ==
    /\ Has(processedTweets[tweetId], "prediction")
    /\ \/ processedTweets[tweetId].prediction # CurrentResult(tweetId).prediction
       \/ processedTweets[tweetId].confidence # CurrentResult(tweetId).confidence

\* C25: when a known tweet is sighted again while the ledger's prediction
\* for it is not the one the background would give now, the sighting brings
\* the ledger up to date: it writes the newer prediction and confidence or
\* asks the background for them with a getPrediction request.
C25_ResightingRefreshes ==
    [][\A tweetId \in TweetIds :
         (Resighted(tweetId) /\ NewerResultAvailable(tweetId)) =>
             \/ /\ processedTweets'[tweetId].prediction = CurrentResult(tweetId).prediction
                /\ processedTweets'[tweetId].confidence = CurrentResult(tweetId).confidence
             \/ \E i \in DOMAIN tweetOps' :
                   /\ tweetOps'[i].action = "getPrediction"
                   /\ tweetOps'[i].tweetId = tweetId]_vars

\* the getPrediction requests for the tweet waiting in the background
PredictionRequests(queue, tweetId) ==
    {i \in DOMAIN queue : queue[i].action = "getPrediction" /\ queue[i].tweetId = tweetId}

Delivered(tweetId) ==
    {m \in responses \ responses' : m.to = "getPrediction" /\ m.tweetId = tweetId}

\* C27: hasButtons of a ledger entry changes only from false to true, in a
\* step that changes nothing but the ledger and the requests sent (a sighting
\* that injects the buttons); isHidden becomes true only in the step that
\* delivers a prediction response for the tweet that calls for hiding, and
\* becomes false only in a step that changes nothing but that field and the
\* tweet element (Show);
\* a step that changes the content script's settings or sends a rating
\* leaves the whole ledger as it is, so switching the filter off leaves
\* hidden tweets hidden.
C27_FieldsChangeOnlyInTheirActions ==
    [][/\ \A tweetId \in DOMAIN processedTweets :
            LET old == processedTweets[tweetId]
                new == processedTweets'[tweetId]
            IN  /\ new.hasButtons # old.hasButtons
                     => /\ new.hasButtons
                        /\ new.isHidden = old.isHidden
                        /\ UNCHANGED <<classifierVars, storeVars, responses, settings, clicks>>
                /\ (new.isHidden /\ ~old.isHidden)
                     => \E m \in Delivered(tweetId) : shouldHide(m.response, settings)
                /\ (old.isHidden /\ ~new.isHidden)
                     => /\ [new EXCEPT !.element = old.element]
                             = [old EXCEPT !.isHidden = FALSE]
                        /\ UNCHANGED <<classifierVars, storeVars, backgroundVars, settings,
                                       clicks>>
       /\ (settings' # settings \/ clicks' # clicks) => processedTweets' = processedTweets]_vars

\* a tweet is hidden and the filter has been switched off
C27_Witness ==
    /\ 1 \in DOMAIN processedTweets
    /\ processedTweets[1].isHidden
    /\ ~settings.filterEnabled

(***************************************************************************)
(* extractTweetData on its own: one element, extracted at two times        *)
(***************************************************************************)
MaxTime == 6

\* the tweet elements extracted
ExtractIds == 1..3

\* a tweet element is on the page at some time
InitExtract ==
    /\ newClassifier
    /\ \E tweetId \in ExtractIds, time \in 0..MaxTime :
          lastCall = [op |-> "element", seq |-> 0, tweetId |-> tweetId, time |-> time]
    /\ InitIdle
    /\ lastDecision = [pc |-> "none"]

\* the first extraction of the element, at discovery
ExtractCall ==
    /\ lastCall.op = "element"
    /\ lastCall' = [op |-> "extract", seq |-> 1, tweetId |-> lastCall.tweetId,
                    time |-> lastCall.time,
                    item |-> extractTweetData(lastCall.tweetId, lastCall.time)]
    /\ UNCHANGED <<classifierVars, systemVars, lastDecision>>

\* the extraction of the same element by the click handler, then or later
ExtractAgainCall(later) ==
    /\ lastCall.op = "extract"
    /\ later >= lastCall.time
    /\ lastCall' = [op |-> "extractAgain", seq |-> 2, tweetId |-> lastCall.tweetId,
                    time |-> later, item |-> lastCall.item,
                    again |-> extractTweetData(lastCall.tweetId, later)]
    /\ UNCHANGED <<classifierVars, systemVars, lastDecision>>

NextExtract ==
    \/ ExtractCall
    \/ \E later \in 0..MaxTime : ExtractAgainCall(later)

SpecExtract == InitExtract /\ [][NextExtract]_vars

\* C28: the second extraction of an unchanged tweet element gives an item
\* equal to the first in id, author, text and timestamp, whatever the time
\* between the two.
C28_ExtractionIsIdempotent ==
    lastCall.op = "extractAgain" => lastCall.again = lastCall.item

(***************************************************************************)
(* Properties of the settings a hide decision uses                         *)
(***************************************************************************)
\* C29: the step that delivers a prediction response decides with the
\* settings the store holds at that moment: the tweet is hidden in that step
\* exactly if the hide condition holds of the response and the stored
\* filterEnabled and filterThreshold.
C29_DecisionUsesStoredSettings ==
    [][\A m \in responses \ responses' :
         (m.to = "getPrediction" /\ m.tweetId \in DOMAIN processedTweets)
            => (processedTweets'[m.tweetId].isHidden
                  <=> shouldHide(m.response, getSettings(dbSettings)))]_vars

(***************************************************************************)
(* End to end: the user has rated one tweet with dislike and switched the  *)
(* filter on in the popup; the page is loaded and its tweets discovered    *)
(***************************************************************************)
\* the tweets of the page: the rated one and a later one with the same text
PageIds == {1, 4}

\* the store after the one rating and the popup's save: the record the click
\* handler sent for tweet 1, the settings with the filter on
InitEndToEnd ==
    /\ newClassifier
    /\ lastCall = [op |-> "none", seq |-> 0]
    /\ tweets = saveTweet(NoRecord, Merge(extractTweetData(1, 0),
                                          [rating |-> -1, ratedAt |-> 0]))
    /\ dbSettings = updateSettings(defaultSettings,
                                   [filterEnabled |-> TRUE, filterThreshold |-> 50])
    /\ installed = FALSE
    /\ tweetOps = <<>>
    /\ settingsOps = <<[action |-> "getSettings", await |-> "getSettings",
                        req |-> <<"getSettings", 1>>]>>
    /\ responses = {}
    /\ sent = openChannel(NoRecord, <<"getSettings", 1>>)
    /\ processedTweets = NoRecord
    /\ settings = defaultSettings
    /\ clicks = 0
    /\ lastDecision = [pc |-> "none"]

NextEndToEnd ==
    \/ onInstalled
    \/ onInstalled_train
    \/ saveTweetRating_saveTweet
    \/ saveTweetRating_train
    \/ getPrediction_respond
    \/ getSettings_respond
    \/ updateSettings_update
    \/ \E newSettings \in SettingsChoices : saveSettings(newSettings)
    \/ \E tweetId \in PageIds, injected \in BOOLEAN : processTweet_new(tweetId, injected)
    \/ \E tweetId \in PageIds : processTweet_known(tweetId)
    \/ \E tweetId \in PageIds : handleActionBarMarker(tweetId)
    \/ \E tweetId \in PageIds, rating \in {1, -1} : clickRatingButton(tweetId, rating)
    \/ \E message \in responses, attached \in BOOLEAN :
          getPredictionCallback(message, attached)
    \/ \E message \in responses : getSettingsCallback(message)
    \/ \E tweetId \in PageIds : showTweet(tweetId)
    \/ \E newSettings \in SettingsMessages : onUpdateSettings(newSettings)

SpecEndToEnd == InitEndToEnd /\ [][NextEndToEnd]_vars

\* the terms of the tweet's text occur in a stored tweet rated dislike, other
\* than the tweet itself, and in no stored tweet rated like
SimilarToDisliked(tweetId) ==
    LET terms == Range(processText(tweetText(tweetId)))
        shares(id) == terms \cap Range(processText(tweets[id].content)) # {}
    IN  /\ \E id \in DOMAIN tweets \ {tweetId} :
              Has(tweets[id], "rating") /\ tweets[id].rating = -1 /\ shares(id)
        /\ \A id \in DOMAIN tweets : (Has(tweets[id], "rating") /\ tweets[id].rating = 1)
              => ~shares(id)

\* C30: with one tweet rated dislike in the store and the filter on in the
\* content script, the decision for a tweet discovered afterwards whose
\* terms occur only in disliked content is to hide it.
C30_SimilarToDislikedIsHidden ==
    (/\ Decided
     /\ lastDecision.settings.filterEnabled
     /\ SimilarToDisliked(lastDecision.tweetId))
    => lastDecision.hide

(***************************************************************************)
(* Properties of the placeholder of a hidden tweet                         *)
(***************************************************************************)
\* C31: a ledger entry has isHidden true exactly if one placeholder stands
\* in the page for its tweet, and the tweet element is displayed exactly if
\* isHidden is false.
C31_HiddenIffOnePlaceholder ==
    \A tweetId \in DOMAIN processedTweets :
        /\ processedTweets[tweetId].isHidden
             <=> processedTweets[tweetId].element.placeholders = 1
        /\ processedTweets[tweetId].isHidden
             <=> processedTweets[tweetId].element.display = "none"

(***************************************************************************)
(* Properties of the training of the classifier by the background script   *)
(***************************************************************************)
\* the db.getRatedTweets awaited by the handler at the head resolves
ReadResolves ==
    /\ tweetOps # <<>>
    /\ Head(tweetOps).await = "getRatedTweets"
    /\ tweetOps' = Tail(tweetOps)

\* the classifier a call of train with this list leaves behind
Trained(tweetList) ==
    LET r == train(tweetList, classifier)
    IN  <<r.trained, r.likedWords, r.dislikedWords>>

\* C32: the classifier changes only in the step in which the read of the
\* rated tweets awaited by onInstalled or saveTweetRating resolves, and in
\* that step it becomes what train makes of the rated tweets the store holds
\* then; for saveTweetRating these include a rated record of the tweet the
\* handler has put.
C32_TrainFromFreshRead ==
    [][/\ classifierVars' # classifierVars => ReadResolves
       /\ ReadResolves =>
            /\ classifierVars' = IF Len(getRatedTweets(tweets)) > 0
                                   THEN Trained(getRatedTweets(tweets))
                                   ELSE classifierVars
            /\ Head(tweetOps).action = "saveTweetRating" =>
                 \E i \in DOMAIN getRatedTweets(tweets) :
                    getRatedTweets(tweets)[i].id = Head(tweetOps).data.id]_vars

\* the rating of this session was the tenth and the classifier is trained
C32_Witness ==
    /\ trained
    /\ Len(getRatedTweets(tweets)) = minTrainingExamples
    /\ 1 \in DOMAIN tweets
    /\ tweets[1].ratedAt = clickTime(1)
    /\ ~installed

\* the ratings the tweets of the page can have in the store: none, like, dislike
PageRatings == [TweetIds -> {0, 1, -1}]

\* the rated tweets of a store that holds the records of earlier sessions
\* and the tweets of the page with the given ratings
RatedWith(ratings) ==
    LET old == {id \in DOMAIN tweets : id \notin TweetIds /\ Has(tweets[id], "rating")}
        page == {id \in TweetIds : ratings[id] # 0}
        table == [id \in old \cup page |->
                    IF id \in page
                      THEN Merge(extractTweetData(id, 0), [rating |-> ratings[id]])
                      ELSE tweets[id]]
    IN  toArray(table, DOMAIN table)

\* the model is as constructed, or holds the complete word counts of the
\* rated tweets of one state of the store
Complete(model) ==
    \/ model = [trained |-> FALSE, likedWords |-> EmptyMap, dislikedWords |-> EmptyMap]
    \/ \E ratings \in PageRatings :
          LET r == train(RatedWith(ratings),
                         [trained |-> FALSE, likedWords |-> EmptyMap,
                          dislikedWords |-> EmptyMap])
          IN  /\ r.ok
              /\ model = [trained |-> TRUE, likedWords |-> r.likedWords,
                          dislikedWords |-> r.dislikedWords]

RatingsQuiesced ==
    /\ clicks > 0
    /\ tweetOps = <<>>
    /\ \A k \in 1..clicks : Len(sent[<<"saveTweetRating", k>>]) = 1

\* C34: when the saveTweetRating requests have quiesced and the store holds
\* at least minTrainingExamples rated tweets, the classifier is trained and
\* its word counts are those of exactly the rated tweets the store holds.
C34_ModelMatchesStoreAtQuiescence ==
    (RatingsQuiesced /\ Len(getRatedTweets(tweets)) >= minTrainingExamples)
    => LET r == train(getRatedTweets(tweets),
                      [trained |-> FALSE, likedWords |-> EmptyMap,
                       dislikedWords |-> EmptyMap])
       IN  /\ trained
           /\ likedWords = r.likedWords
           /\ dislikedWords = r.dislikedWords

(***************************************************************************)
(* Properties of the dispatch of requests                                  *)
(***************************************************************************)
\* C35: no request whose action is one of MessageType is answered by the
\* default case of handleMessage with 'Unknown action': each has a case of
\* its own in the switch.
C35_EveryKindHasItsHandler ==
    \A req \in DOMAIN sent : req[1] \in MessageType =>
        \A i \in DOMAIN sent[req] : sent[req][i] # unknownAction


(***************************************************************************)
(* processText on its own                                                  *)
(***************************************************************************)
MaxPieces == 3

\* the fragments the tweet texts are put together from
TextPieces == { <<"G","o","o","d"," ">>, <<"t","o"," ">>, <<"x"," ">>,
                <<"b","a","d","!">>, <<" ","\n">>, <<"A">> }

RECURSIVE TextsOfPieces(_)
TextsOfPieces(n) ==
    IF n = 0 THEN { <<>> }
    ELSE LET shorter == TextsOfPieces(n - 1)
         IN  shorter \cup {t \o p : t \in shorter, p \in TextPieces}

\* the arguments of processText: a text, or nothing where the caller's
\* value has no content
ProcessTextInputs == [text : TextsOfPieces(MaxPieces)] \cup {NoRecord}

InitTokenize ==
    /\ newClassifier
    /\ \E input \in ProcessTextInputs : lastCall = [op |-> "text", seq |-> 0, input |-> input]
    /\ InitIdle
    /\ lastDecision = [pc |-> "none"]

\* a call of processText; a missing argument is falsy as the empty string is
ProcessTextCall ==
    /\ lastCall.op = "text"
    /\ lastCall' = [op |-> "processText", seq |-> 1, input |-> lastCall.input,
                    tokens |-> processText(IF Has(lastCall.input, "text")
                                             THEN lastCall.input.text ELSE <<>>)]
    /\ UNCHANGED <<classifierVars, systemVars, lastDecision>>

NextTokenize == ProcessTextCall

SpecTokenize == InitTokenize /\ [][NextTokenize]_vars

\* the terms of a text: its pieces between whitespace, each in lower case
\* without the characters that are neither letters, digits nor '_'
TermsIn(text) ==
    LET pieces == splitWhitespace(text)
    IN  [i \in DOMAIN pieces |-> SelectSeq(toLowerCase(pieces[i]), IsWordChar)]

KeptTerm(term) == Len(term) > 1 /\ term \notin stopwords

\* C36: processText returns no empty term, no term of length <= 1 and no
\* stopword; it returns the remaining terms of the text in their order, with
\* their repetitions; for an empty, whitespace-only or missing text it
\* returns the empty sequence.
C36_TokensAreKeptTermsInOrder ==
    lastCall.op = "processText" =>
        LET input == lastCall.input
            tokens == lastCall.tokens
        IN  /\ \A i \in DOMAIN tokens : tokens[i] # <<>> /\ KeptTerm(tokens[i])
            /\ Has(input, "text") => tokens = SelectSeq(TermsIn(input.text), KeptTerm)
            /\ (~Has(input, "text") \/ \A i \in DOMAIN input.text : IsSpace(input.text[i]))
                  => tokens = <<>>

\* a text with a stopword between two occurrences of one term
C36_Witness ==
    /\ lastCall.op = "processText"
    /\ Has(lastCall.input, "text")
    /\ lastCall.tokens = << <<"g","o","o","d">>, <<"g","o","o","d">> >>
    /\ \E i \in DOMAIN TermsIn(lastCall.input.text) : TermsIn(lastCall.input.text)[i] \in stopwords


\* no request is in flight: no handler is waiting for the store and no
\* response is on its way to the page
NothingInFlight == tweetOps = <<>> /\ settingsOps = <<>> /\ responses = {}

\* C37: whenever the store holds at least minTrainingExamples rated tweets
\* with a text and nothing is in flight, the classifier is ready, whether
\* or not the install event has come in this run of the background script.
C37_ReadyWheneverStoreSuffices ==
    (NothingInFlight /\ NumLabeledWithText(getRatedTweets(tweets)) >= minTrainingExamples)
        => isReady(classifier)


\* C38: a tweet is hidden at most once.  The step that hides a tweet is the
\* one that stores the first prediction in its ledger entry, and a stored
\* prediction stays; so after Show no sighting, rating, retraining or change
\* of settings hides the tweet again.
C38_HiddenAtMostOnce ==
    [][\A tweetId \in DOMAIN processedTweets :
         LET old == processedTweets[tweetId]
             new == processedTweets'[tweetId]
         IN  /\ ((new.isHidden /\ ~old.isHidden)
                   \/ (new.element.display = "none" /\ old.element.display # "none"))
                  => ~Has(old, "prediction")
             /\ Has(old, "prediction") => Has(new, "prediction")
             /\ old.isHidden => Has(old, "prediction")]_vars

\* the tweet hidden by the last decision has been shown again, and a rating
\* has been sent and the classifier trained
C38_Witness ==
    /\ lastDecision.pc = "decided"
    /\ lastDecision.hide
    /\ lastDecision.tweetId \in DOMAIN processedTweets
    /\ ~processedTweets[lastDecision.tweetId].isHidden
    /\ processedTweets[lastDecision.tweetId].element = newElement
    /\ clicks > 0
    /\ trained
    /\ settings # lastDecision.settings


\* C39: a saveTweetRating request answered success=false has changed nothing
\* in the store: the record of its tweet is not the one the request carried.
C39_FailedSaveChangedNothing ==
    [][\A req \in DOMAIN sent :
         (req[1] = "saveTweetRating" /\ sent'[req] # sent[req] /\ Sent(req).success = FALSE)
            => getTweet(tweets', Head(tweetOps).data.id) # Head(tweetOps).data]_vars


====
